---- MODULE Spec2Model ----
(***************************************************************************)
(* Model of the HxComponents registry (package components): registration, *)
(* the HTTP dispatch performed by Registry.HandlerFor and the event        *)
(* lifecycle of Registry.handleEvent.                                      *)
(*                                                                         *)
(* Strings the code computes with (event names, method names, component    *)
(* names) are sequences of bytes: an ASCII byte is written as its          *)
(* character, any other byte as its two hexadecimal digits.  Code the      *)
(* component                                                               *)
(* author supplies (hooks, handlers, getters, Render) is the environment:  *)
(* when the dispatcher calls it, its result is drawn from the results such *)
(* a call can have (return nil, return an error, panic).                   *)
(***************************************************************************)
EXTENDS Integers, Sequences, FiniteSets, TLC

\* ------------------------------------------------------------------ bounds

\* most values one request carries for the hxc-event field
MaxEventValues == 2
\* most ValidationErrors one Validate call returns
MaxValidationErrors == 1

\* ----------------------------------------------------------------- strings

LowerChars == <<"a", "b", "c", "d", "e", "f", "g", "h", "i", "j", "k", "l", "m",
                "n", "o", "p", "q", "r", "s", "t", "u", "v", "w", "x", "y", "z">>
UpperChars == <<"A", "B", "C", "D", "E", "F", "G", "H", "I", "J", "K", "L", "M",
                "N", "O", "P", "Q", "R", "S", "T", "U", "V", "W", "X", "Y", "Z">>

\* strings.ToUpper on one ASCII character
ToUpperChar(c) ==
    IF \E i \in 1..Len(LowerChars) : LowerChars[i] = c
    THEN UpperChars[CHOOSE i \in 1..Len(LowerChars) : LowerChars[i] = c]
    ELSE c

\* the bytes of the two-byte characters the inputs use: U+00E9 (e acute) is
\* C3 A9, U+00C9 (E acute) is C3 89; U+FFFD, utf8.RuneError, is EF BF BD
HighBytes == {"C3", "A9", "89", "EF", "BF", "BD"}
RuneError == <<"EF", "BF", "BD">>

\* strings.ToUpper on a string of one byte, s[:1]: an ASCII byte by the
\* ASCII path; a byte of a longer character is no valid UTF-8 by itself,
\* and strings.Map writes utf8.RuneError for it
ToUpperByte(b) ==
    IF b \in HighBytes THEN RuneError ELSE <<ToUpperChar(b)>>

\* capitalize: strings.ToUpper(s[:1]) + s[1:]
capitalize(s) ==
    IF s = <<>> THEN <<>> ELSE ToUpperByte(Head(s)) \o Tail(s)

\* methodName := "On" + capitalize(eventName)
MethodName(eventName) == <<"O", "n">> \o capitalize(eventName)

\* html.EscapeString on one character
EscapeChar(c) ==
    CASE c = "<" -> <<"&", "l", "t", ";">>
      [] c = ">" -> <<"&", "g", "t", ";">>
      [] c = "&" -> <<"&", "a", "m", "p", ";">>
      [] c = "'" -> <<"&", "#", "3", "9", ";">>
      [] c = "\"" -> <<"&", "#", "3", "4", ";">>
      [] OTHER -> <<c>>

\* html.EscapeString
RECURSIVE EscapeString(_)
EscapeString(s) ==
    IF s = <<>> THEN <<>> ELSE EscapeChar(Head(s)) \o EscapeString(Tail(s))

\* ------------------------------------------------------- component types

\* the optional lifecycle interfaces
CoreHooks == {"Initializer", "Validator", "BeforeEventHandler",
              "AfterEventHandler", "Processor"}

\* request-header setter interfaces of applyHxHeaders, in call order
SetterOrder == <<"HxBoosted", "HxRequest", "HxCurrentURL", "HxPrompt",
                 "HxTarget", "HxTrigger", "HxTriggerName", "HttpMethod">>

\* response-header getter interfaces of applyHxResponseHeaders, in call order
GetterOrder == <<"HxLocation", "HxPushUrl", "HxRedirect", "HxRefresh",
                 "HxReplaceUrl", "HxReswap", "HxRetarget", "HxReselect",
                 "HxTrigger", "HxTriggerAfterSettle", "HxTriggerAfterSwap">>

\* the response header each getter interface fills
HeaderKey(gt) ==
    CASE gt = "HxLocation" -> "HX-Location"
      [] gt = "HxPushUrl" -> "HX-Push-Url"
      [] gt = "HxRedirect" -> "HX-Redirect"
      [] gt = "HxRefresh" -> "HX-Refresh"
      [] gt = "HxReplaceUrl" -> "HX-Replace-Url"
      [] gt = "HxReswap" -> "HX-Reswap"
      [] gt = "HxRetarget" -> "HX-Retarget"
      [] gt = "HxReselect" -> "HX-Reselect"
      [] gt = "HxTrigger" -> "HX-Trigger"
      [] gt = "HxTriggerAfterSettle" -> "HX-Trigger-After-Settle"
      [] gt = "HxTriggerAfterSwap" -> "HX-Trigger-After-Swap"

DirectiveHeaders == {HeaderKey(GetterOrder[i]) : i \in 1..Len(GetterOrder)}

Range(s) == {s[i] : i \in 1..Len(s)}

\* the exported event-handler methods a component type may declare, with the
\* shape reflection reports for each: number of inputs, whether the first
\* input implements context.Context, and the kinds of the results
MethodPool ==
    [name : {<<"O", "n", "I", "n", "c">>}, numIn : {1}, ctxIn : {TRUE},
     results : {<<"error">>}]

\* the shapes a method named OnInc can be declared with: the required one
\* (ctx context.Context) error, and ones that differ from it in the inputs or
\* in the results
HandlerShapes ==
    {[name |-> <<"O", "n", "I", "n", "c">>, numIn |-> s[1], ctxIn |-> s[2],
      results |-> s[3]] :
        s \in {<<1, TRUE, <<"error">> >>, <<0, FALSE, <<"error">> >>,
               <<2, TRUE, <<"error">> >>, <<1, FALSE, <<"error">> >>,
               <<1, TRUE, <<>> >>, <<1, TRUE, <<"string">> >>,
               <<1, TRUE, <<"error", "error">> >>,
               <<1, TRUE, <<"string", "error">> >>}}

\* results[0].Interface().(error) can hold an error: the method has a first
\* result and its type is error
FirstResultIsError(m) == Len(m.results) > 0 /\ m.results[1] = "error"

\* the component types of the client program.  T1 is a type with any set of
\* lifecycle hooks, with or without the header interfaces and a custom form
\* decoder; T2 is a plain component: only Render.
TypeIds == {"T1", "T2"}

PlainType ==
    [hooks |-> {}, setters |-> {}, getters |-> {}, decoder |-> FALSE,
     methods |-> {}]

RichTypes ==
    {[hooks |-> h,
      setters |-> IF x THEN {"HxBoosted", "HttpMethod"} ELSE {},
      getters |-> IF x THEN {"HxRedirect", "HxRefresh"} ELSE {},
      decoder |-> x,
      methods |-> MethodPool] : h \in SUBSET CoreHooks, x \in BOOLEAN}

\* types with every lifecycle hook whose OnInc has any of the shapes
ShapedTypes ==
    {[hooks |-> CoreHooks, setters |-> {}, getters |-> {}, decoder |-> FALSE,
      methods |-> {m}] : m \in HandlerShapes}

\* ---------------------------------------------------------------- inputs

\* component names HandlerFor is mounted for and Register is called with
Names == {<<"a">>, <<"b">>}

\* URL paths of the requests routed to Registry.Handler
Paths == {<<"/", "a">>, <<"/", "c", "/", "b", "/">>, <<"/">>,
          <<"/", "a", "<">>, <<"a">>}

HttpMethods == {"GET", "POST", "PUT"}

\* event names a request may carry: one with a handler in MethodPool, one
\* without (it holds a character HTML escapes), and the empty value (hxc-event=)
EventNames == {<<"i", "n", "c">>, <<"a", "<">>, <<>>}

RECURSIVE SeqsUpTo(_, _)
SeqsUpTo(S, n) ==
    IF n = 0 THEN {<<>>}
    ELSE LET shorter == SeqsUpTo(S, n - 1)
         IN  shorter \cup {Append(q, x) : q \in shorter, x \in S}

\* the values of one hxc-event field (none: the field is absent)
EventLists == SeqsUpTo(EventNames, MaxEventValues)

Goroutines == {"g1"}

\* what a call into component code can do
CallResults == {"ok", "err", "panic"}

\* ------------------------------------------------------------------ state

VARIABLES
    decl,        \* the client program's type declarations: TypeIds -> descriptor
    components,  \* Registry.components: registered name -> type id
    debugMode,   \* Registry.debugMode
    disp,        \* per goroutine: the dispatch (one call of the HandlerFor func) it runs
    fn,          \* the call of a function of the package run by itself
    mu,          \* Registry.mu: the goroutine holding the write lock, those holding read locks
    errorHandler, \* Registry.errorHandler
    procs,       \* per goroutine of the client program: the registry method it runs
    regOk,       \* per name: the Register calls that have added an entry for it
    heap,        \* the instances reflect.New has allocated: address -> field values
    serving      \* per goroutine of the HTTP server: its dispatch on an instance of the heap

vars == <<decl, components, debugMode, disp, fn, mu, errorHandler, procs, regOk,
          heap, serving>>

\* what the dispatch specifications leave alone
Aux == <<fn, mu, errorHandler, procs, regOk, heap, serving>>

\* no function is run by itself
NoFn == [op |-> "none"]

\* goroutines of the client program that call the registry's methods
Procs == {"p1", "p2"}

\* sync.RWMutex, not held
Unlocked == [w |-> "none", r |-> {}]

NoResult == [status |-> "none", val |-> <<>>]

\* a goroutine that runs no method of the registry
IdleProc ==
    [op |-> "none", name |-> <<>>, typ |-> "", pc |-> "idle", result |-> NoResult]

\* names Register is called with: those of Names, a longer one and the empty name
RegNames == Names \cup {<<>>, <<"a", "b">>}

\* goroutines of the HTTP server that serve requests for one component
Servers == {"s1", "s2"}

NoRequest == [count |-> <<>>, event |-> "none"]
NoOutcome == [status |-> 0, body |-> <<>>]

\* a server goroutine between two requests
IdleServing ==
    [pc |-> "idle", req |-> NoRequest, inst |-> 0, first |-> <<>>, out |-> NoOutcome]

\* the dispatch specifications: no goroutine calls the registry on its own
AuxInit ==
    /\ fn = NoFn
    /\ mu = Unlocked
    /\ errorHandler = "default"
    /\ procs = [p \in Procs |-> IdleProc]
    /\ regOk = [n \in RegNames |-> 0]
    /\ heap = << >>
    /\ serving = [s \in Servers |-> IdleServing]

\* --------------------------------------------------------- response writer

\* http.ResponseWriter: status 0 = header not written yet
NewResponse == [status |-> 0, headers |-> {}, body |-> <<>>]

\* w.Header().Set(k, v): replaces the value; no effect on the response once
\* the header has been written
SetHeader(w, k, v) ==
    IF w.status # 0 THEN w
    ELSE [w EXCEPT !.headers = {h \in @ : h.k # k} \cup {[k |-> k, v |-> v]}]

\* w.WriteHeader(code): the first call fixes the status
WriteHeader(w, code) == IF w.status # 0 THEN w ELSE [w EXCEPT !.status = code]

\* w.Write(data): writes the header with 200 if none was written
Write(w, data) ==
    [WriteHeader(w, 200) EXCEPT !.body = Append(@, data)]

\* the status the client receives (200 when the handler wrote nothing)
StatusOf(w) == IF w.status = 0 THEN 200 ELSE w.status

HasHeader(w, k) == \E h \in w.headers : h.k = k

\* pieces of text: a literal of the source or a value computed at run time
Lit(t) == [lit |-> t]
Val(s) == [val |-> s]

\* html.EscapeString on a text made of pieces: the values character by
\* character (the literals of the source hold no character it changes,
\* except the quote marks, which are pieces of their own)
EscapeText(text) ==
    [i \in 1..Len(text) |->
        IF "val" \in DOMAIN text[i] THEN Val(EscapeString(text[i].val))
        ELSE IF text[i] = Lit("'") THEN Lit("&#39;") ELSE text[i]]

\* --------------------------------------------------------------- dispatch

NoError == [type |-> "nil", ComponentName |-> <<>>, EventName |-> <<>>]
NoPending == [title |-> "", message |-> <<>>, code |-> 0]

\* a goroutine running no dispatch
Idle ==
    [pc |-> "idle", componentName |-> <<>>, method |-> "", typ |-> "",
     formData |-> <<>>, formFields |-> 0, customDecoder |-> FALSE,
     log |-> <<>>, valErrs |-> 0, hasEvent |-> FALSE, eventName |-> <<>>,
     methodName |-> <<>>, err |-> NoError, pending |-> NoPending,
     w |-> NewResponse, errCalls |-> <<>>, panicked |-> FALSE,
     rendered |-> FALSE]

\* the descriptor of the instance's type
TypeOf(r) == decl[r.typ]

\* a call the dispatcher makes (on the instance, or Decode on the decoder),
\* recorded with its argument and with what it did
Call(r, op, arg, res) ==
    [r EXCEPT !.log = Append(@, [op |-> op, arg |-> arg, res |-> res])]

\* Registry.renderError(w, req, title, message, code) followed by return:
\* the call of the error handler is the next step of the dispatch
renderError(r, title, message, code) ==
    [r EXCEPT !.pending = [title |-> title, message |-> message, code |-> code],
              !.pc = "error"]

\* mutant: the deferred func recovers the panic and only logs it
RecoverOnlyLogs(r) ==
    [r EXCEPT !.panicked = TRUE, !.pc = "done"]

\* the deferred recover() of the handler func
Recover(r) ==
    renderError([r EXCEPT !.panicked = TRUE], "Internal Server Error",
                <<Lit("Component encountered an unexpected error")>>, 500)

\* ErrorComponent(title, message, code).Render(ctx, w): the error page
ErrorComponent(title, message, code) ==
    [page |-> "error", title |-> title, message |-> message, code |-> code]

\* the plain HTML defaultErrorHandler writes when the error page failed
FallbackPage(title, message, code) ==
    [page |-> "fallback", title |-> title, message |-> EscapeText(message),
     code |-> code]

\* mutant: the error handler clears the headers set so far
defaultErrorHandlerResets(w, title, message, code, tpl) ==
    LET w0 == IF w.status # 0 THEN w ELSE [w EXCEPT !.headers = {}]
        w1 == WriteHeader(SetHeader(w0, "Content-Type", "text/html"), code)
    IN  IF tpl THEN Write(w1, ErrorComponent(title, message, code))
        ELSE Write(w1, FallbackPage(title, message, code))

\* defaultErrorHandler: tpl tells whether the error page rendered
defaultErrorHandler(w, title, message, code, tpl) ==
    LET w1 == WriteHeader(SetHeader(w, "Content-Type", "text/html"), code) IN
    IF tpl THEN Write(w1, ErrorComponent(title, message, code))
    ELSE Write(w1, FallbackPage(title, message, code))

\* r.errorHandler(w, req, title, message, code)
DoErrorHandler(r, tpl) ==
    [r EXCEPT !.w = defaultErrorHandler(@, r.pending.title, r.pending.message,
                                        r.pending.code, tpl),
              !.errCalls = Append(@, [title |-> r.pending.title,
                                      message |-> r.pending.message,
                                      code |-> r.pending.code]),
              !.pending = NoPending,
              !.pc = "done"]

\* r.errorHandler(w, req, title, message, code) with a handler installed by
\* SetErrorHandler: it writes its response and returns, or it panics.  A
\* panic during a call made by the body of the handler func is recovered by
\* the deferred func, which calls renderError again; a panic during the call
\* made by the deferred func leaves the handler func
DoCustomErrorHandler(r, res) ==
    LET r1 == [r EXCEPT !.errCalls = Append(@, [title |-> r.pending.title,
                                                message |-> r.pending.message,
                                                code |-> r.pending.code]),
                        !.pending = NoPending]
    IN  CASE res = "ok" ->
               [r1 EXCEPT !.w = Write(WriteHeader(@, r.pending.code),
                                      [page |-> "custom", code |-> r.pending.code]),
                          !.pc = "done"]
          [] res = "panic" /\ r.panicked -> [r1 EXCEPT !.pc = "crashed"]
          [] res = "panic" /\ ~r.panicked -> Recover(r1)

\* ------------------------------------------------------------------- init

Init ==
    /\ decl \in [TypeIds -> RichTypes \cup {PlainType}]
    /\ decl["T1"] \in RichTypes
    /\ decl["T2"] = PlainType
    /\ components = << >>
    /\ debugMode = FALSE
    /\ disp = [g \in Goroutines |-> Idle]
    /\ AuxInit

\* a client program whose T1 declares OnInc with one of HandlerShapes
InitShapes ==
    /\ decl \in [TypeIds -> ShapedTypes \cup {PlainType}]
    /\ decl["T1"] \in ShapedTypes
    /\ decl["T2"] = PlainType
    /\ components = << >>
    /\ debugMode = FALSE
    /\ disp = [g \in Goroutines |-> Idle]
    /\ AuxInit

\* ---------------------------------------------------------------- registry

\* Register[T](r, name) with T a pointer to the struct type t; a call that
\* panics (empty or duplicate name) leaves the registry as it was
Register(name, t) ==
    /\ name # <<>>
    /\ name \notin DOMAIN components
    /\ components' = [n \in DOMAIN components \cup {name} |->
                        IF n = name THEN t ELSE components[n]]
    /\ UNCHANGED <<decl, debugMode, disp, Aux>>

EnableDebugMode ==
    /\ debugMode' = TRUE
    /\ UNCHANGED <<decl, components, disp, Aux>>

DisableDebugMode ==
    /\ debugMode' = FALSE
    /\ UNCHANGED <<decl, components, disp, Aux>>

IsDebugMode == debugMode

\* ------------------------------------------------- HandlerFor, stage by stage
\* Each Do... operator is one stretch of the handler func applied to the
\* dispatch record r; its other arguments are what the environment decides.

\* the handler func is called with a request: the method check
DoRequest(name, method) ==
    LET r == [Idle EXCEPT !.componentName = name, !.method = method] IN
    IF method # "POST" /\ method # "GET"
    THEN renderError(r, "Method Not Allowed",
                     <<Lit("Method "), Val(<<method>>), Lit(" is not allowed")>>, 405)
    ELSE [r EXCEPT !.pc = "lookup"]

\* len(name) > 100 is no valid component name
MaxComponentNameLen == 100

Digits == {"0", "1", "2", "3", "4", "5", "6", "7", "8", "9"}

\* isValidComponentName(name)
isValidComponentName(name) ==
    /\ name # <<>> /\ Len(name) <= MaxComponentNameLen
    /\ \A i \in 1..Len(name) :
          name[i] \in Range(LowerChars) \cup Range(UpperChars) \cup Digits \cup {"-", "_"}

\* Registry.Handler: the index loops over path, as positions from 1; the
\* slice path[lastSlash+1:] of a path without '/' is out of range, and
\* nothing in Handler recovers that panic
LastSlash(path) ==
    LET slashes == {i \in 1..Len(path) : path[i] = "/"} IN
    IF slashes = {} THEN Len(path) + 1
    ELSE CHOOSE i \in slashes : \A j \in slashes : j <= i

\* mutant: the name is the text after the last '/' and nothing else
PathNameAfterLastSlash(path) ==
    SubSeq(path, LastSlash(path) + 1, Len(path))

PathName(path) ==
    LET lastSlash == LastSlash(path)
        name == SubSeq(path, lastSlash + 1, Len(path))
        before == {i \in 1..(lastSlash - 1) : path[i] = "/"}
    IN  IF name = <<>> /\ lastSlash > 1 /\ before # {}
        THEN SubSeq(path, (CHOOSE i \in before : \A j \in before : j <= i) + 1,
                    lastSlash - 1)
        ELSE name

\* mutant: Handler looks at the HTTP method before it looks at the name
DoHandlerMethodFirst(path, method) ==
    LET r == [Idle EXCEPT !.method = method] IN
    IF LastSlash(path) > Len(path)
    THEN [r EXCEPT !.panicked = TRUE, !.pc = "crashed"]
    ELSE LET componentName == PathName(path)
             rn == [r EXCEPT !.componentName = componentName]
         IN  IF method # "POST" /\ method # "GET" THEN DoRequest(componentName, method)
             ELSE IF componentName = <<>>
             THEN renderError(rn, "Bad Request",
                              <<Lit("Component name cannot be empty")>>, 400)
             ELSE IF ~isValidComponentName(componentName)
             THEN renderError(rn, "Bad Request",
                              <<Lit("invalid component name "), Lit("'"),
                                Val(componentName), Lit("'")>>, 400)
             ELSE DoRequest(componentName, method)

DoHandler(path, method) ==
    LET r == [Idle EXCEPT !.method = method] IN
    IF LastSlash(path) > Len(path)
    THEN [r EXCEPT !.panicked = TRUE, !.pc = "crashed"]
    ELSE LET componentName == PathName(path)
             rn == [r EXCEPT !.componentName = componentName]
         IN  IF componentName = <<>>
             THEN renderError(rn, "Bad Request",
                              <<Lit("Component name cannot be empty")>>, 400)
             ELSE IF ~isValidComponentName(componentName)
             THEN renderError(rn, "Bad Request",
                              <<Lit("invalid component name "), Lit("'"),
                                Val(componentName), Lit("'")>>, 400)
             ELSE DoRequest(componentName, method)

\* entry, exists := r.components[componentName], under the read lock
DoLookup(r) ==
    IF r.componentName \notin DOMAIN components
    THEN renderError(r, "Component Not Found",
                     <<Lit("Component "), Lit("'"), Val(r.componentName), Lit("'"),
                       Lit(" not found")>>, 404)
    ELSE [r EXCEPT !.typ = components[r.componentName], !.pc = "parse"]

\* req.ParseForm() and instance := reflect.New(entry.structType): the
\* instance is the fresh record of this dispatch
DoParseForm(r, parsed) ==
    IF ~parsed
    THEN renderError(r, "Bad Request", <<Lit("Failed to parse form data: ")>>, 400)
    ELSE [r EXCEPT !.pc = "decoder"]

\* mutant: formData is req.Form for every method
FormDataOfForm(method, query, body) == IF method = "POST" THEN body \o query ELSE query

\* formData: req.PostForm (the body alone) for POST, req.Form (for GET the
\* URL query) otherwise; query and body are the hxc-event values of each
FormDataOf(method, query, body) == IF method = "POST" THEN body ELSE query

\* len(req.Form) with hxc-event the one field: for POST, ParseForm merges
\* the body and the URL query into req.Form
FormFieldsOf(method, query, body) ==
    IF method = "POST"
    THEN (IF body \o query # <<>> THEN 1 ELSE 0)
    ELSE (IF query # <<>> THEN 1 ELSE 0)

\* decoder := defaultDecoder, or customDecoder.GetFormDecoder()
DoSelectDecoder(r, res) ==
    IF ~TypeOf(r).decoder THEN [r EXCEPT !.pc = "decode"]
    ELSE LET r1 == Call(r, "GetFormDecoder", <<>>, res) IN
         IF res = "panic" THEN Recover(r1)
         ELSE [r1 EXCEPT !.customDecoder = TRUE, !.pc = "decode"]

\* mutant: the error of Decode is logged and the dispatch goes on
DoDecodeIgnoresError(r, res) ==
    LET r1 == Call(r, "Decode", <<>>, res) IN
    CASE res = "panic" -> Recover(r1)
      [] OTHER -> [r1 EXCEPT !.pc = "inbound"]

\* decoder.Decode(instance.Interface(), formData)
DoDecode(r, res) ==
    LET r1 == Call(r, "Decode", <<>>, res) IN
    CASE res = "ok" -> [r1 EXCEPT !.pc = "inbound"]
      [] res = "err" ->
            renderError(r1, "Decode Error", <<Lit("Failed to decode form data: ")>>, 400)
      [] res = "panic" -> Recover(r1)

\* the calls applyHxHeaders makes on an instance with the setter interfaces
\* in `setters`, up to and including the one that panics (if any)
RECURSIVE SetterCalls(_, _, _, _)
SetterCalls(r, setters, pan, i) ==
    IF i > Len(SetterOrder) THEN r
    ELSE LET st == SetterOrder[i] IN
         IF st \notin setters THEN SetterCalls(r, setters, pan, i + 1)
         ELSE LET r1 == Call(r, "Set" \o st,
                             IF st = "HttpMethod" THEN <<r.method>> ELSE <<>>,
                             IF st = pan THEN "panic" ELSE "ok")
              IN  IF st = pan THEN r1 ELSE SetterCalls(r1, setters, pan, i + 1)

\* mutant: the request headers are not applied
DoInboundSkips(r, pan) == [r EXCEPT !.pc = "init"]

\* applyHxHeaders(instance.Interface(), req)
DoInbound(r, pan) ==
    LET r1 == SetterCalls(r, TypeOf(r).setters, pan, 1) IN
    IF pan \in TypeOf(r).setters THEN Recover(r1) ELSE [r1 EXCEPT !.pc = "init"]

\* mutant: the error of Init is logged and the dispatch goes on
DoInitIgnoresError(r, res) ==
    IF "Initializer" \notin TypeOf(r).hooks THEN [r EXCEPT !.pc = "validate"]
    ELSE LET r1 == Call(r, "Init", <<>>, res) IN
         CASE res = "panic" -> Recover(r1)
           [] OTHER -> [r1 EXCEPT !.pc = "validate"]

\* if initializer, ok := instance.(Initializer); ok { initializer.Init(ctx) }
DoInit(r, res) ==
    IF "Initializer" \notin TypeOf(r).hooks THEN [r EXCEPT !.pc = "validate"]
    ELSE LET r1 == Call(r, "Init", <<>>, res) IN
         CASE res = "ok" -> [r1 EXCEPT !.pc = "validate"]
           [] res = "err" ->
                 renderError(r1, "Initialization Error",
                             <<Lit("Component initialization failed: ")>>, 500)
           [] res = "panic" -> Recover(r1)

\* mutant: a non-empty list of validation errors is answered with 400
DoValidateRejects(r, n) ==
    IF "Validator" \notin TypeOf(r).hooks THEN [r EXCEPT !.pc = "event"]
    ELSE IF n < 0 THEN Recover(Call(r, "Validate", <<>>, "panic"))
    ELSE IF n > 0
    THEN renderError([Call(r, "Validate", <<>>, "ok") EXCEPT !.valErrs = n],
                     "Validation Error", <<Lit("Validation failed")>>, 400)
    ELSE [Call(r, "Validate", <<>>, "ok") EXCEPT !.valErrs = n, !.pc = "event"]

\* if validator, ok := instance.(Validator); ok { validator.Validate(ctx) }:
\* n is the number of ValidationErrors returned, -1 a panic
DoValidate(r, n) ==
    IF "Validator" \notin TypeOf(r).hooks THEN [r EXCEPT !.pc = "event"]
    ELSE IF n < 0 THEN Recover(Call(r, "Validate", <<>>, "panic"))
    ELSE [Call(r, "Validate", <<>>, "ok") EXCEPT !.valErrs = n, !.pc = "event"]

\* mutant: the event branch is entered whether or not the field is present
DoEventCheckAlways(r, query, body) ==
    LET formData == FormDataOf(r.method, query, body)
        r1 == [r EXCEPT !.formFields = FormFieldsOf(r.method, query, body)]
    IN  IF Len(formData) > 0
        THEN [r1 EXCEPT !.hasEvent = TRUE, !.eventName = formData[1],
                        !.formData = <<formData[1]>>, !.pc = "before"]
        ELSE [r1 EXCEPT !.hasEvent = TRUE, !.pc = "before"]

\* mutant: a request without an event goes straight to the response headers
DoEventCheckSkipsProcess(r, query, body) ==
    LET formData == FormDataOf(r.method, query, body)
        r1 == [r EXCEPT !.formFields = FormFieldsOf(r.method, query, body)]
    IN  IF Len(formData) > 0
        THEN [r1 EXCEPT !.hasEvent = TRUE, !.eventName = formData[1],
                        !.formData = <<formData[1]>>, !.pc = "before"]
        ELSE [r1 EXCEPT !.pc = "outbound"]

\* mutant: a request without an event ends after the event check
DoEventCheckNoEventEnds(r, query, body) ==
    LET formData == FormDataOf(r.method, query, body)
        r1 == [r EXCEPT !.formFields = FormFieldsOf(r.method, query, body)]
    IN  IF Len(formData) > 0
        THEN [r1 EXCEPT !.hasEvent = TRUE, !.eventName = formData[1],
                        !.formData = <<formData[1]>>, !.pc = "before"]
        ELSE [r1 EXCEPT !.pc = "done"]

\* if eventNames, ok := formData["hxc-event"]; ok && len(eventNames) > 0.
\* The fields of the request are drawn here, where the handler first looks
\* at them; of formData the record keeps the value the handler uses.
DoEventCheck(r, query, body) ==
    LET formData == FormDataOf(r.method, query, body)
        r1 == [r EXCEPT !.formFields = FormFieldsOf(r.method, query, body)]
    IN  IF Len(formData) > 0
        THEN [r1 EXCEPT !.hasEvent = TRUE, !.eventName = formData[1],
                        !.formData = <<formData[1]>>, !.pc = "before"]
        ELSE [r1 EXCEPT !.pc = "process"]

\* handleEvent returned err: the "Event Error" response of HandlerFor, whose
\* message is "Event '%s' failed: %v" with err.Error()
EventError(r, e) ==
    renderError([r EXCEPT !.err = e], "Event Error",
                <<Lit("Event "), Lit("'"), Val(r.eventName), Lit("'"), Lit(" failed: ")>>
                \o (IF e.type = "ErrEventNotFound"
                    THEN <<Lit("event handler "), Lit("'"), Val(e.EventName),
                           Lit("'"), Lit(" "), Lit("not found"), Lit(" on component "),
                           Lit("'"), Val(e.ComponentName), Lit("'")>>
                    ELSE <<Lit(e.type)>>), 500)

\* fmt.Errorf(text + ": %w", err)
Wrapped(text) == [type |-> text, ComponentName |-> <<>>, EventName |-> <<>>]

\* mutant: the error BeforeEvent returns is dropped
DoBeforeEventIgnoresError(r, res) ==
    IF "BeforeEventHandler" \notin TypeOf(r).hooks THEN [r EXCEPT !.pc = "resolve"]
    ELSE LET r1 == Call(r, "BeforeEvent", r.eventName, res) IN
         CASE res = "panic" -> Recover(r1)
           [] OTHER -> [r1 EXCEPT !.pc = "resolve"]

\* handleEvent: the BeforeEvent hook
DoBeforeEvent(r, res) ==
    IF "BeforeEventHandler" \notin TypeOf(r).hooks THEN [r EXCEPT !.pc = "resolve"]
    ELSE LET r1 == Call(r, "BeforeEvent", r.eventName, res) IN
         CASE res = "ok" -> [r1 EXCEPT !.pc = "resolve"]
           [] res = "err" -> EventError(r1, Wrapped("BeforeEvent failed"))
           [] res = "panic" -> Recover(r1)

\* value.MethodByName(methodName) on the instance's type
MethodByName(r, methodName) == {m \in TypeOf(r).methods : m.name = methodName}

\* method.IsValid() of value.MethodByName(methodName) on a type that
\* declares the methods named in `declared`: the names are compared byte by
\* byte
IsValidMethod(declared, methodName) == methodName \in declared

\* mutant: a missing method is reported with a plain error
DoResolvePlainError(r) ==
    LET methodName == MethodName(r.eventName)
        found == MethodByName(r, methodName)
    IN  IF found = {}
        THEN EventError(r, Wrapped("no handler"))
        ELSE LET method == CHOOSE m \in found : TRUE IN
             IF method.numIn # 1
             THEN EventError(r, Wrapped("must have signature"))
             ELSE IF ~method.ctxIn
             THEN EventError(r, Wrapped("first parameter must be context.Context"))
             ELSE [r EXCEPT !.methodName = methodName, !.pc = "invoke"]

\* handleEvent: method lookup and the checks of its signature
DoResolve(r) ==
    LET methodName == MethodName(r.eventName)
        found == MethodByName(r, methodName)
    IN  IF found = {}
        THEN EventError(r, [type |-> "ErrEventNotFound",
                            ComponentName |-> r.componentName,
                            EventName |-> r.eventName])
        ELSE LET method == CHOOSE m \in found : TRUE IN
             IF method.numIn # 1
             THEN EventError(r, Wrapped("must have signature"))
             ELSE IF ~method.ctxIn
             THEN EventError(r, Wrapped("first parameter must be context.Context"))
             ELSE [r EXCEPT !.methodName = methodName, !.pc = "invoke"]

\* mutant: handleEvent returns right after a successful handler
DoInvokeSkipsAfterEvent(r, res) ==
    LET r1 == Call(r, "Handler", r.methodName, res)
    IN  CASE res = "panic" -> Recover(r1)
          [] res = "err" -> EventError(r1, Wrapped("event handler failed"))
          [] OTHER -> [r1 EXCEPT !.pc = "process"]

\* mutant: the result of the handler is not looked at
DoInvokeIgnoresError(r, res) ==
    LET r1 == Call(r, "Handler", r.methodName, res)
    IN  CASE res = "panic" -> Recover(r1)
          [] OTHER -> [r1 EXCEPT !.pc = "after"]

\* handleEvent: method.Call and the check of its first result
DoInvoke(r, res) ==
    LET r1 == Call(r, "Handler", r.methodName, res)
        method == CHOOSE m \in MethodByName(r, r.methodName) : TRUE
    IN  CASE res = "panic" -> Recover(r1)
          [] res = "err" /\ FirstResultIsError(method) ->
                EventError(r1, Wrapped("event handler failed"))
          [] OTHER -> [r1 EXCEPT !.pc = "after"]

\* mutant: an AfterEvent error is logged and the dispatch goes on
DoAfterEventIgnoresError(r, res) ==
    IF "AfterEventHandler" \notin TypeOf(r).hooks THEN [r EXCEPT !.pc = "process"]
    ELSE LET r1 == Call(r, "AfterEvent", r.eventName, res) IN
         CASE res = "panic" -> Recover(r1)
           [] OTHER -> [r1 EXCEPT !.pc = "process"]

\* handleEvent: the AfterEvent hook
DoAfterEvent(r, res) ==
    IF "AfterEventHandler" \notin TypeOf(r).hooks THEN [r EXCEPT !.pc = "process"]
    ELSE LET r1 == Call(r, "AfterEvent", r.eventName, res) IN
         CASE res = "ok" -> [r1 EXCEPT !.pc = "process"]
           [] res = "err" -> EventError(r1, Wrapped("AfterEvent failed"))
           [] res = "panic" -> Recover(r1)

\* mutant: Process is called a second time when it has returned an error
DoProcessRetries(r, res) ==
    IF "Processor" \notin TypeOf(r).hooks THEN [r EXCEPT !.pc = "outbound"]
    ELSE LET r1 == Call(r, "Process", <<>>, res) IN
         CASE res = "ok" -> [r1 EXCEPT !.pc = "outbound"]
           [] res = "err" -> [Call(r1, "Process", <<>>, "ok") EXCEPT !.pc = "outbound"]
           [] res = "panic" -> Recover(r1)

\* mutant: the error of Process is logged and the headers are still applied
DoProcessIgnoresError(r, res) ==
    IF "Processor" \notin TypeOf(r).hooks THEN [r EXCEPT !.pc = "outbound"]
    ELSE LET r1 == Call(r, "Process", <<>>, res) IN
         CASE res = "panic" -> Recover(r1)
           [] OTHER -> [r1 EXCEPT !.pc = "outbound"]

\* if processor, ok := instance.(Processor); ok { processor.Process(ctx) }
DoProcess(r, res) ==
    IF "Processor" \notin TypeOf(r).hooks THEN [r EXCEPT !.pc = "outbound"]
    ELSE LET r1 == Call(r, "Process", <<>>, res) IN
         CASE res = "ok" -> [r1 EXCEPT !.pc = "outbound"]
           [] res = "err" ->
                 renderError(r1, "Processing Error",
                             <<Lit("Component processing failed: ")>>, 500)
           [] res = "panic" -> Recover(r1)

\* what a string getter can return
StringResults == {"", "/x"}

\* mutant: a getter's value is written whatever it is
RECURSIVE GetterCallsAlways(_, _, _, _, _, _)
GetterCallsAlways(r, getters, strs, refresh, pan, i) ==
    IF i > Len(GetterOrder) THEN r
    ELSE LET gt == GetterOrder[i] IN
         IF gt \notin getters THEN GetterCallsAlways(r, getters, strs, refresh, pan, i + 1)
         ELSE LET r1 == Call(r, "Get" \o gt, <<>>, IF gt = pan THEN "panic" ELSE "ok")
                  r2 == [r1 EXCEPT !.w = SetHeader(@, HeaderKey(gt),
                                                   IF gt = "HxRefresh"
                                                   THEN (IF refresh THEN "true" ELSE "false")
                                                   ELSE strs[gt])]
              IN  IF gt = pan THEN r1
                  ELSE GetterCallsAlways(r2, getters, strs, refresh, pan, i + 1)

\* applyHxResponseHeaders on an instance with the getter interfaces in
\* `getters`: strs and refresh are what the getters return, pan the getter
\* that panics (if any)
RECURSIVE GetterCalls(_, _, _, _, _, _)
GetterCalls(r, getters, strs, refresh, pan, i) ==
    IF i > Len(GetterOrder) THEN r
    ELSE LET gt == GetterOrder[i] IN
         IF gt \notin getters THEN GetterCalls(r, getters, strs, refresh, pan, i + 1)
         ELSE LET r1 == Call(r, "Get" \o gt, <<>>, IF gt = pan THEN "panic" ELSE "ok")
                  r2 == IF gt = "HxRefresh"
                        THEN (IF refresh
                              THEN [r1 EXCEPT !.w = SetHeader(@, HeaderKey(gt), "true")]
                              ELSE r1)
                        ELSE (IF strs[gt] # ""
                              THEN [r1 EXCEPT !.w = SetHeader(@, HeaderKey(gt), strs[gt])]
                              ELSE r1)
              IN  IF gt = pan THEN r1
                  ELSE GetterCalls(r2, getters, strs, refresh, pan, i + 1)

\* applyHxResponseHeaders(w, instance.Interface())
DoOutbound(r, strs, refresh, pan) ==
    LET r1 == GetterCalls(r, TypeOf(r).getters, strs, refresh, pan, 1) IN
    IF pan \in TypeOf(r).getters THEN Recover(r1) ELSE [r1 EXCEPT !.pc = "debug"]

\* if r.IsDebugMode() { the three X-HxComponent headers }
DoDebugHeaders(r) ==
    IF ~IsDebugMode THEN [r EXCEPT !.pc = "render"]
    ELSE [r EXCEPT
            !.w = SetHeader(
                    SetHeader(
                      SetHeader(@, "X-HxComponent-Name", r.componentName),
                      "X-HxComponent-FormFields", r.formFields),
                    "X-HxComponent-HasEvent",
                    IF r.hasEvent THEN "true" ELSE "false"),
            !.pc = "render"]

\* mutant: an error of Render is logged and the handler func returns
DoRenderFailsSilently(r, res, wrote) ==
    LET r1 == Call([r EXCEPT !.w = SetHeader(@, "Content-Type", "text/html")],
                   "Render", <<>>, res)
    IN  CASE res = "ok" ->
               [r1 EXCEPT !.w = IF wrote
                                THEN Write(@, [page |-> "component",
                                               name |-> r.componentName])
                                ELSE @,
                          !.rendered = TRUE, !.pc = "done"]
          [] res = "err" -> [r1 EXCEPT !.pc = "done"]
          [] res = "panic" -> Recover(r1)

\* w.Header().Set("Content-Type", "text/html") and component.Render(ctx, w):
\* wrote tells whether Render wrote to w before it returned or panicked
DoRender(r, res, wrote) ==
    LET r1 == Call([r EXCEPT !.w = SetHeader(@, "Content-Type", "text/html")],
                   "Render", <<>>, res)
        r2 == IF wrote
              THEN [r1 EXCEPT !.w = Write(@, [page |-> "component",
                                               name |-> r.componentName])]
              ELSE r1
    IN  CASE res = "ok" -> [r2 EXCEPT !.rendered = TRUE, !.pc = "done"]
          [] res = "err" ->
                renderError(r2, "Render Error",
                            <<Lit("Component rendering failed: ")>>, 500)
          [] res = "panic" -> Recover(r2)

\* ---------------------------------------------------------------- actions

Others == <<decl, components, debugMode, Aux>>

Step(g, r) == disp' = [disp EXCEPT ![g] = r] /\ UNCHANGED Others

\* a request arrives at HandlerFor(name); in this specification the server
\* handles one request at a time
Request(g) ==
    /\ \A h \in Goroutines : disp[h].pc = "idle"
    /\ \E name \in Names, method \in HttpMethods : Step(g, DoRequest(name, method))

\* a request arrives at Registry.Handler
HandlerRequest(g) ==
    /\ \A h \in Goroutines : disp[h].pc = "idle"
    /\ \E path \in Paths, method \in HttpMethods : Step(g, DoHandler(path, method))

Lookup(g) ==
    /\ disp[g].pc = "lookup"
    /\ Step(g, DoLookup(disp[g]))

ParseForm(g) ==
    /\ disp[g].pc = "parse"
    /\ \E parsed \in BOOLEAN : Step(g, DoParseForm(disp[g], parsed))

SelectDecoder(g) ==
    /\ disp[g].pc = "decoder"
    /\ \E res \in {"ok", "panic"} : Step(g, DoSelectDecoder(disp[g], res))

Decode(g) ==
    /\ disp[g].pc = "decode"
    /\ \E res \in CallResults : Step(g, DoDecode(disp[g], res))

Inbound(g) ==
    /\ disp[g].pc = "inbound"
    /\ \E pan \in Range(SetterOrder) \cup {"none"} : Step(g, DoInbound(disp[g], pan))

InitStage(g) ==
    /\ disp[g].pc = "init"
    /\ \E res \in CallResults : Step(g, DoInit(disp[g], res))

Validate(g) ==
    /\ disp[g].pc = "validate"
    /\ \E n \in -1..MaxValidationErrors : Step(g, DoValidate(disp[g], n))

EventCheck(g) ==
    /\ disp[g].pc = "event"
    /\ \E query \in EventLists, body \in EventLists :
          Step(g, DoEventCheck(disp[g], query, body))

BeforeEvent(g) ==
    /\ disp[g].pc = "before"
    /\ \E res \in CallResults : Step(g, DoBeforeEvent(disp[g], res))

Resolve(g) ==
    /\ disp[g].pc = "resolve"
    /\ Step(g, DoResolve(disp[g]))

Invoke(g) ==
    /\ disp[g].pc = "invoke"
    /\ \E res \in CallResults :
          /\ res = "err" =>
                \A m \in MethodByName(disp[g], disp[g].methodName) : FirstResultIsError(m)
          /\ Step(g, DoInvoke(disp[g], res))

AfterEvent(g) ==
    /\ disp[g].pc = "after"
    /\ \E res \in CallResults : Step(g, DoAfterEvent(disp[g], res))

Process(g) ==
    /\ disp[g].pc = "process"
    /\ \E res \in CallResults : Step(g, DoProcess(disp[g], res))

Outbound(g) ==
    /\ disp[g].pc = "outbound"
    /\ \E strs \in [TypeOf(disp[g]).getters \ {"HxRefresh"} -> StringResults],
          refresh \in BOOLEAN, pan \in Range(GetterOrder) \cup {"none"} :
          Step(g, DoOutbound(disp[g], strs, refresh, pan))

DebugHeaders(g) ==
    /\ disp[g].pc = "debug"
    /\ Step(g, DoDebugHeaders(disp[g]))

Render(g) ==
    /\ disp[g].pc = "render"
    /\ \E res \in CallResults, wrote \in BOOLEAN : Step(g, DoRender(disp[g], res, wrote))

\* renderError: the error handler writes the error response
ErrorHandler(g) ==
    /\ disp[g].pc = "error"
    /\ IF errorHandler = "default"
       THEN \E tpl \in BOOLEAN : Step(g, DoErrorHandler(disp[g], tpl))
       ELSE \E res \in {"ok", "panic"} : Step(g, DoCustomErrorHandler(disp[g], res))

\* the handler func has returned (or a panic has left it): the response is
\* sent, the instance dropped
Finish(g) ==
    /\ disp[g].pc \in {"done", "crashed"}
    /\ Step(g, Idle)

Next ==
    \/ \E name \in Names \cup {<<>>}, t \in TypeIds : Register(name, t)
    \/ EnableDebugMode
    \/ DisableDebugMode
    \/ \E g \in Goroutines :
          \/ Request(g) \/ HandlerRequest(g) \/ Lookup(g) \/ ParseForm(g) \/ SelectDecoder(g)
          \/ Decode(g) \/ Inbound(g) \/ InitStage(g) \/ Validate(g)
          \/ EventCheck(g) \/ BeforeEvent(g) \/ Resolve(g) \/ Invoke(g)
          \/ AfterEvent(g) \/ Process(g) \/ Outbound(g) \/ DebugHeaders(g)
          \/ Render(g) \/ ErrorHandler(g) \/ Finish(g)

Spec == Init /\ [][Next]_vars

\* a stage of the handler func of goroutine g, from the lookup to the call
\* of the error handler
DispatchStage(g) ==
    \/ Lookup(g) \/ ParseForm(g) \/ SelectDecoder(g) \/ Decode(g) \/ Inbound(g)
    \/ InitStage(g) \/ Validate(g) \/ EventCheck(g) \/ BeforeEvent(g) \/ Resolve(g)
    \/ Invoke(g) \/ AfterEvent(g) \/ Process(g) \/ Outbound(g) \/ DebugHeaders(g)
    \/ Render(g) \/ ErrorHandler(g)

\* a client program with a type T1 that implements every lifecycle hook,
\* with or without the header interfaces and a decoder, and a plain type T2
InitTerminating ==
    /\ decl \in [TypeIds -> RichTypes \cup {PlainType}]
    /\ decl["T1"] \in RichTypes /\ decl["T1"].hooks = CoreHooks
    /\ decl["T2"] = PlainType
    /\ components = << >>
    /\ debugMode = FALSE
    /\ disp = [g \in Goroutines |-> Idle]
    /\ AuxInit

\* the goroutine of a dispatch goes on running, and every call it makes
\* (decoder, setters, hooks, getters, Render, error handler) returns or panics
SpecTerminating ==
    InitTerminating /\ [][Next]_vars /\ \A g \in Goroutines : WF_vars(DispatchStage(g))

\* the same program run by clients whose handler methods have any shape
SpecShapes == InitShapes /\ [][Next]_vars

\* the same program after SetErrorHandler has installed a handler of the
\* client's; T1 implements every lifecycle hook
InitCustomHandler ==
    /\ decl \in [TypeIds -> RichTypes \cup {PlainType}]
    /\ decl["T1"] \in RichTypes /\ decl["T1"].hooks = CoreHooks
    /\ decl["T2"] = PlainType
    /\ components = << >>
    /\ debugMode = FALSE
    /\ disp = [g \in Goroutines |-> Idle]
    /\ fn = NoFn
    /\ mu = Unlocked
    /\ errorHandler = "custom"
    /\ procs = [p \in Procs |-> IdleProc]
    /\ regOk = [n \in RegNames |-> 0]
    /\ heap = << >>
    /\ serving = [s \in Servers |-> IdleServing]

SpecCustomHandler == InitCustomHandler /\ [][Next]_vars

\* ------------------------------------------- the method name of an event

\* most characters of an event name given to capitalize by itself
MaxNameChars == 3

\* the characters of those event names, each as its UTF-8 bytes
NameChars == {<<"a">>, <<"d">>, <<"D">>, <<"I">>, <<"C3", "A9">>, <<"C3", "89">>}

\* the strings of at most n of these characters
RECURSIVE CharStrings(_)
CharStrings(n) ==
    IF n = 0 THEN {<<>>}
    ELSE LET shorter == CharStrings(n - 1)
         IN  shorter \cup {q \o c : q \in shorter, c \in NameChars}

\* handler methods a component may declare
DeclaredPool == {<<"O", "n", "A", "d">>, <<"O", "n", "A", "D">>,
                 <<"O", "n", "C3", "89">>}

\* a component declares some methods and handleEvent is given an event name
InitCapitalize ==
    /\ decl = [t \in TypeIds |-> PlainType]
    /\ components = << >>
    /\ debugMode = FALSE
    /\ disp = [g \in Goroutines |-> Idle]
    /\ mu = Unlocked
    /\ errorHandler = "default"
    /\ procs = [p \in Procs |-> IdleProc]
    /\ regOk = [n \in RegNames |-> 0]
    /\ heap = << >>
    /\ serving = [s \in Servers |-> IdleServing]
    /\ fn \in [op : {"handleEvent"}, pc : {"name"},
                eventName : CharStrings(MaxNameChars),
                declared : SUBSET DeclaredPool,
                methodName : {<<>>}, valid : {FALSE}]

\* methodName := "On" + capitalize(eventName)
Capitalize ==
    /\ fn.op = "handleEvent" /\ fn.pc = "name"
    /\ fn' = [fn EXCEPT !.methodName = MethodName(fn.eventName), !.pc = "lookup"]
    /\ UNCHANGED <<decl, components, debugMode, disp, mu, errorHandler, procs, regOk,
                   heap, serving>>

\* method := value.MethodByName(methodName); method.IsValid()
LookupMethod ==
    /\ fn.op = "handleEvent" /\ fn.pc = "lookup"
    /\ fn' = [fn EXCEPT !.valid = IsValidMethod(fn.declared, fn.methodName),
                        !.pc = "done"]
    /\ UNCHANGED <<decl, components, debugMode, disp, mu, errorHandler, procs, regOk,
                   heap, serving>>

NextCapitalize == Capitalize \/ LookupMethod

SpecCapitalize == InitCapitalize /\ [][NextCapitalize]_vars

\* ------------------------------------------- the outbound pass by itself
\* applyHxResponseHeaders(w, instance) on a fresh response, for an instance
\* with any of the eleven getters, each returning any of StringResults (the
\* refresh getter: a boolean).

InitHeaders ==
    /\ decl = [t \in TypeIds |-> PlainType]
    /\ components = << >>
    /\ debugMode = FALSE
    /\ disp = [g \in Goroutines |-> Idle]
    /\ mu = Unlocked
    /\ errorHandler = "default"
    /\ procs = [p \in Procs |-> IdleProc]
    /\ regOk = [n \in RegNames |-> 0]
    /\ heap = << >>
    /\ serving = [s \in Servers |-> IdleServing]
    /\ \E getters \in SUBSET Range(GetterOrder) :
         \E strs \in [getters \ {"HxRefresh"} -> StringResults],
            refresh \in IF "HxRefresh" \in getters THEN BOOLEAN ELSE {FALSE} :
            fn = [op |-> "applyHxResponseHeaders", pc |-> "call",
                  getters |-> getters, strs |-> strs, refresh |-> refresh,
                  r |-> Idle]

\* the whole of applyHxResponseHeaders
ApplyHxResponseHeaders ==
    /\ fn.op = "applyHxResponseHeaders" /\ fn.pc = "call"
    /\ fn' = [fn EXCEPT !.r = GetterCalls(fn.r, fn.getters, fn.strs, fn.refresh,
                                          "none", 1),
                        !.pc = "done"]
    /\ UNCHANGED <<decl, components, debugMode, disp, mu, errorHandler, procs, regOk,
                   heap, serving>>

NextHeaders == ApplyHxResponseHeaders

SpecHeaders == InitHeaders /\ [][NextHeaders]_vars

\* ------------------------------------------- the registry and its lock
\* The methods of Registry run by the goroutines of Procs, one step per
\* lock operation and per access to a field of the registry.  HandlerFor
\* appears with the accesses a dispatch makes to the registry (the lookup
\* of the entry and, for an unknown name, the call of the error handler);
\* what a dispatch does with its instance is the matter of Spec.

\* the type parameters given to Register: the pointer-to-struct types of
\* TypeIds, a struct type V (no pointer), a pointer PN to a named non-struct
\* type, and the interface type IF, whose zero value has no dynamic type
TypeParams == TypeIds \cup {"V", "PN", "IF"}

\* reflect.TypeOf(zero): "nil", or the Kind and the Kind of Elem()
KindOf(t) ==
    CASE t \in TypeIds -> <<"Ptr", "Struct">>
      [] t = "V" -> <<"Struct">>
      [] t = "PN" -> <<"Ptr", "Int">>
      [] t = "IF" -> <<"nil">>

\* the bytes of names in ascending order (ASCII)
ByteOrder ==
    <<"-", "0", "1", "2", "3", "4", "5", "6", "7", "8", "9">> \o UpperChars
    \o <<"_">> \o LowerChars
ByteCode(b) == CHOOSE i \in 1..Len(ByteOrder) : ByteOrder[i] = b

\* a < b for Go strings: byte by byte, a proper prefix first
RECURSIVE StringLess(_, _)
StringLess(a, b) ==
    IF b = <<>> THEN FALSE
    ELSE IF a = <<>> THEN TRUE
    ELSE IF Head(a) # Head(b) THEN ByteCode(Head(a)) < ByteCode(Head(b))
    ELSE StringLess(Tail(a), Tail(b))

\* mutant: the names are returned in the order the map gave them
NotSorted(names) == names

\* sort.Strings(names)
RECURSIVE SortStrings(_)
SortStrings(names) ==
    IF names = <<>> THEN <<>>
    ELSE LET i == CHOOSE k \in 1..Len(names) :
                    \A j \in 1..Len(names) : ~StringLess(names[j], names[k])
         IN  <<names[i]>>
             \o SortStrings(SubSeq(names, 1, i - 1) \o SubSeq(names, i + 1, Len(names)))

\* the orders in which `for name := range r.components` can give the keys
RangeOrders(m) ==
    {q \in [1..Cardinality(DOMAIN m) -> DOMAIN m] :
        \A i, j \in 1..Cardinality(DOMAIN m) : i # j => q[i] # q[j]}

RegistryOps == {"Register", "SetErrorHandler", "EnableDebugMode", "DisableDebugMode",
                "IsDebugMode", "ListComponents", "IsRegistered", "GetComponentInfo",
                "HandlerFor"}

\* the first step of each method
FirstPc(op) ==
    CASE op = "Register" -> "check"
      [] op = "SetErrorHandler" -> "write"
      [] op \in {"EnableDebugMode", "DisableDebugMode"} -> "lock"
      [] OTHER -> "rlock"

\* a registry with the default error handler and no component
InitRegistry ==
    /\ decl \in [TypeIds -> {PlainType}]
    /\ components = << >>
    /\ debugMode = FALSE
    /\ disp = [g \in Goroutines |-> Idle]
    /\ fn = NoFn
    /\ mu = Unlocked
    /\ errorHandler = "default"
    /\ procs = [p \in Procs |-> IdleProc]
    /\ regOk = [n \in RegNames |-> 0]
    /\ heap = << >>
    /\ serving = [s \in Servers |-> IdleServing]

RegFrame == <<decl, disp, fn, heap, serving>>

SetProc(p, q) == procs' = [procs EXCEPT ![p] = q]

Returned(q, status, val) ==
    [q EXCEPT !.pc = "done", !.result = [status |-> status, val |-> val]]

\* a goroutine calls a method of the registry
CallMethod(p) ==
    /\ procs[p].pc = "idle"
    /\ \E op \in RegistryOps, name \in RegNames, t \in TypeParams :
          /\ op \notin {"Register", "IsRegistered", "GetComponentInfo", "HandlerFor"}
                => name = <<>>
          /\ op \in {"IsRegistered", "GetComponentInfo", "HandlerFor"} => name # <<>>
          /\ op # "Register" => t = "T1"
          /\ SetProc(p, [IdleProc EXCEPT !.op = op, !.name = name,
                                         !.typ = IF op = "Register" THEN t ELSE "",
                                         !.pc = FirstPc(op)])
    /\ UNCHANGED <<components, debugMode, mu, errorHandler, regOk, RegFrame>>

\* mutant: Register does not look at what the pointer points to
RegisterCheckNoElem(p) ==
    LET q == procs[p] IN
    /\ q.op = "Register" /\ q.pc = "check"
    /\ IF q.name = <<>> \/ KindOf(q.typ)[1] # "Ptr"
       THEN SetProc(p, Returned(q, "panic", <<>>))
       ELSE SetProc(p, [q EXCEPT !.pc = "lock"])
    /\ UNCHANGED <<components, debugMode, mu, errorHandler, regOk, RegFrame>>

\* Register: the checks of the name and of the type parameter, each of
\* which panics before the lock is taken
RegisterCheck(p) ==
    LET q == procs[p] IN
    /\ q.op = "Register" /\ q.pc = "check"
    /\ IF \/ q.name = <<>>
          \/ KindOf(q.typ) = <<"nil">>
          \/ KindOf(q.typ)[1] # "Ptr"
          \/ KindOf(q.typ)[2] # "Struct"
       THEN SetProc(p, Returned(q, "panic", <<>>))
       ELSE SetProc(p, [q EXCEPT !.pc = "lock"])
    /\ UNCHANGED <<components, debugMode, mu, errorHandler, regOk, RegFrame>>

\* r.mu.Lock()
Lock(p) ==
    /\ procs[p].pc = "lock"
    /\ mu.w = "none" /\ mu.r = {}
    /\ mu' = [mu EXCEPT !.w = p]
    /\ SetProc(p, [procs[p] EXCEPT !.pc = IF procs[p].op = "Register"
                                          THEN "exists" ELSE "write"])
    /\ UNCHANGED <<components, debugMode, errorHandler, regOk, RegFrame>>

\* r.mu.RLock()
RLock(p) ==
    /\ procs[p].pc = "rlock"
    /\ mu.w = "none"
    /\ mu' = [mu EXCEPT !.r = @ \cup {p}]
    /\ SetProc(p, [procs[p] EXCEPT !.pc = "read"])
    /\ UNCHANGED <<components, debugMode, errorHandler, regOk, RegFrame>>

\* mutant: Register overwrites the entry of a registered name
RegisterExistsNoCheck(p) ==
    LET q == procs[p] IN
    /\ q.op = "Register" /\ q.pc = "exists"
    /\ SetProc(p, [q EXCEPT !.pc = "insert"])
    /\ UNCHANGED <<components, debugMode, mu, errorHandler, regOk, RegFrame>>

\* mutant: the panic on a registered name leaves Register with the lock held
RegisterExistsKeepsLock(p) ==
    LET q == procs[p] IN
    /\ q.op = "Register" /\ q.pc = "exists"
    /\ IF q.name \in DOMAIN components
       THEN SetProc(p, Returned(q, "panic", <<>>))
       ELSE SetProc(p, [q EXCEPT !.pc = "insert"])
    /\ UNCHANGED <<components, debugMode, mu, errorHandler, regOk, RegFrame>>

\* Register: if _, exists := r.components[name]; exists { panic(...) }
RegisterExists(p) ==
    LET q == procs[p] IN
    /\ q.op = "Register" /\ q.pc = "exists"
    /\ IF q.name \in DOMAIN components
       THEN SetProc(p, [q EXCEPT !.pc = "unlock",
                                 !.result = [status |-> "panic", val |-> <<>>]])
       ELSE SetProc(p, [q EXCEPT !.pc = "insert"])
    /\ UNCHANGED <<components, debugMode, mu, errorHandler, regOk, RegFrame>>

\* mutant: Register makes a new table that holds its entry alone
RegisterInsertAlone(p) ==
    LET q == procs[p] IN
    /\ q.op = "Register" /\ q.pc = "insert"
    /\ components' = [n \in {q.name} |-> q.typ]
    /\ regOk' = [regOk EXCEPT ![q.name] = @ + 1]
    /\ SetProc(p, [q EXCEPT !.pc = "unlock",
                             !.result = [status |-> "ok", val |-> <<>>]])
    /\ UNCHANGED <<debugMode, mu, errorHandler, RegFrame>>

\* Register: r.components[name] = componentEntry{structType: structType}
RegisterInsert(p) ==
    LET q == procs[p] IN
    /\ q.op = "Register" /\ q.pc = "insert"
    /\ components' = [n \in DOMAIN components \cup {q.name} |->
                        IF n = q.name THEN q.typ ELSE components[n]]
    /\ regOk' = [regOk EXCEPT ![q.name] = @ + 1]
    /\ SetProc(p, [q EXCEPT !.pc = "unlock",
                             !.result = [status |-> "ok", val |-> <<>>]])
    /\ UNCHANGED <<debugMode, mu, errorHandler, RegFrame>>

\* EnableDebugMode / DisableDebugMode: r.debugMode = true / false
WriteDebugMode(p) ==
    LET q == procs[p] IN
    /\ q.op \in {"EnableDebugMode", "DisableDebugMode"} /\ q.pc = "write"
    /\ debugMode' = (q.op = "EnableDebugMode")
    /\ SetProc(p, [q EXCEPT !.pc = "unlock",
                             !.result = [status |-> "ok", val |-> <<>>]])
    /\ UNCHANGED <<components, mu, errorHandler, regOk, RegFrame>>

\* the deferred r.mu.Unlock(), which also runs when Register panics
Unlock(p) ==
    /\ procs[p].pc = "unlock"
    /\ mu' = [mu EXCEPT !.w = "none"]
    /\ SetProc(p, [procs[p] EXCEPT !.pc = "done"])
    /\ UNCHANGED <<components, debugMode, errorHandler, regOk, RegFrame>>

\* IsDebugMode: return r.debugMode
ReadDebugMode(p) ==
    LET q == procs[p] IN
    /\ q.op = "IsDebugMode" /\ q.pc = "read"
    /\ SetProc(p, [q EXCEPT !.pc = "runlock",
                             !.result = [status |-> "ok", val |-> <<debugMode>>]])
    /\ UNCHANGED <<components, debugMode, mu, errorHandler, regOk, RegFrame>>

\* ListComponents: the keys in the order the map gives them, sorted
ListComponents(p) ==
    LET q == procs[p] IN
    /\ q.op = "ListComponents" /\ q.pc = "read"
    /\ \E names \in RangeOrders(components) :
          SetProc(p, [q EXCEPT !.pc = "runlock",
                               !.result = [status |-> "ok", val |-> SortStrings(names)]])
    /\ UNCHANGED <<components, debugMode, mu, errorHandler, regOk, RegFrame>>

\* IsRegistered: _, exists := r.components[name]
IsRegistered(p) ==
    LET q == procs[p] IN
    /\ q.op = "IsRegistered" /\ q.pc = "read"
    /\ SetProc(p, [q EXCEPT !.pc = "runlock",
                             !.result = [status |-> "ok",
                                         val |-> <<q.name \in DOMAIN components>>]])
    /\ UNCHANGED <<components, debugMode, mu, errorHandler, regOk, RegFrame>>

\* GetComponentInfo: the entry's name and type, or ErrComponentNotFound
GetComponentInfo(p) ==
    LET q == procs[p] IN
    /\ q.op = "GetComponentInfo" /\ q.pc = "read"
    /\ SetProc(p, [q EXCEPT !.pc = "runlock",
                             !.result =
                                IF q.name \in DOMAIN components
                                THEN [status |-> "ok",
                                      val |-> <<q.name, components[q.name]>>]
                                ELSE [status |-> "ErrComponentNotFound",
                                      val |-> <<q.name>>]])
    /\ UNCHANGED <<components, debugMode, mu, errorHandler, regOk, RegFrame>>

\* HandlerFor: entry, exists := r.components[componentName]
LookupEntry(p) ==
    LET q == procs[p] IN
    /\ q.op = "HandlerFor" /\ q.pc = "read"
    /\ SetProc(p, [q EXCEPT !.pc = "runlock",
                             !.result = [status |-> "ok",
                                         val |-> <<q.name \in DOMAIN components>>]])
    /\ UNCHANGED <<components, debugMode, mu, errorHandler, regOk, RegFrame>>

\* r.mu.RUnlock() (deferred in the query methods); HandlerFor goes on to
\* renderError when the name is unknown
RUnlock(p) ==
    LET q == procs[p] IN
    /\ q.pc = "runlock"
    /\ mu' = [mu EXCEPT !.r = @ \ {p}]
    /\ SetProc(p, [q EXCEPT !.pc = IF q.op = "HandlerFor" /\ q.result.val = <<FALSE>>
                                   THEN "call" ELSE "done"])
    /\ UNCHANGED <<components, debugMode, errorHandler, regOk, RegFrame>>

\* SetErrorHandler: r.errorHandler = handler
WriteErrorHandler(p) ==
    LET q == procs[p] IN
    /\ q.op = "SetErrorHandler" /\ q.pc = "write"
    /\ errorHandler' = "custom"
    /\ SetProc(p, Returned(q, "ok", <<>>))
    /\ UNCHANGED <<components, debugMode, mu, regOk, RegFrame>>

\* renderError: r.errorHandler(w, req, title, message, code)
CallErrorHandler(p) ==
    LET q == procs[p] IN
    /\ q.op = "HandlerFor" /\ q.pc = "call"
    /\ SetProc(p, Returned(q, "ok", <<errorHandler>>))
    /\ UNCHANGED <<components, debugMode, mu, errorHandler, regOk, RegFrame>>

\* the method has returned (or panicked) to its caller
Return(p) ==
    /\ procs[p].pc = "done"
    /\ SetProc(p, IdleProc)
    /\ UNCHANGED <<components, debugMode, mu, errorHandler, regOk, RegFrame>>

NextRegistry ==
    \E p \in Procs :
        \/ CallMethod(p) \/ RegisterCheck(p) \/ Lock(p) \/ RLock(p)
        \/ RegisterExists(p) \/ RegisterInsert(p) \/ WriteDebugMode(p)
        \/ Unlock(p) \/ ReadDebugMode(p) \/ ListComponents(p) \/ IsRegistered(p)
        \/ GetComponentInfo(p) \/ LookupEntry(p) \/ RUnlock(p)
        \/ WriteErrorHandler(p) \/ CallErrorHandler(p) \/ Return(p)

SpecRegistry == InitRegistry /\ [][NextRegistry]_vars

\* ------------------------------------------- registry calls made by hooks
\* Goroutines of the HTTP server, each running the handler func of
\* HandlerFor: the lookup under the read lock, then the code of the
\* component (decoder, hooks, event handler), then r.IsDebugMode(), then
\* Render; on a failure or a recovered panic the error handler.  The code of
\* the component and of the error handler may call the registry's methods.
\* fn.at tells where the handler func of each goroutine is; procs holds the
\* registry method the goroutine is in (none while the client's code runs).

\* where the client's code runs
HookStages == {"hook", "render", "error"}

\* the methods the client's code calls on the registry
HookOps == {"IsRegistered", "ListComponents", "IsDebugMode", "Register"}

InitHooks ==
    /\ decl \in [TypeIds -> {PlainType}]
    /\ components = [n \in {<<"a">>} |-> "T1"]
    /\ debugMode = FALSE
    /\ disp = [g \in Goroutines |-> Idle]
    /\ fn = [op |-> "hooks", at |-> [p \in Procs |-> "none"]]
    /\ mu = Unlocked
    /\ errorHandler = "default"
    /\ procs = [p \in Procs |-> IdleProc]
    /\ regOk = [n \in RegNames |-> IF n = <<"a">> THEN 1 ELSE 0]
    /\ heap = << >>
    /\ serving = [s \in Servers |-> IdleServing]

HookFrame == <<decl, components, debugMode, disp, mu, errorHandler, regOk, heap,
               serving>>

SetAt(p, stage) == fn' = [fn EXCEPT !.at[p] = stage]

\* a request arrives: the handler func goes to the lookup of the entry
HookDispatch(p) ==
    /\ fn.at[p] = "none" /\ procs[p].pc = "idle"
    /\ \E name \in Names :
          SetProc(p, [IdleProc EXCEPT !.op = "HandlerFor", !.name = name,
                                      !.pc = FirstPc("HandlerFor")])
    /\ SetAt(p, "lookup")
    /\ UNCHANGED HookFrame

\* the name has an entry: the component's code runs
HookLookedUp(p) ==
    /\ fn.at[p] = "lookup" /\ procs[p].pc = "done"
    /\ SetProc(p, IdleProc)
    /\ SetAt(p, "hook")
    /\ UNCHANGED HookFrame

\* the name has no entry: renderError, the error handler runs
HookNotFound(p) ==
    /\ fn.at[p] = "lookup" /\ procs[p].pc = "call"
    /\ SetProc(p, IdleProc)
    /\ SetAt(p, "error")
    /\ UNCHANGED HookFrame

\* the client's code calls a method of the registry
HookCall(p) ==
    /\ fn.at[p] \in HookStages /\ procs[p].pc = "idle"
    /\ \E op \in HookOps, name \in Names :
          /\ op \notin {"Register", "IsRegistered"} => name = <<"a">>
          /\ SetProc(p, [IdleProc EXCEPT !.op = op,
                                         !.name = IF op \in {"Register", "IsRegistered"}
                                                  THEN name ELSE <<>>,
                                         !.typ = IF op = "Register" THEN "T1" ELSE "",
                                         !.pc = FirstPc(op)])
    /\ UNCHANGED <<fn, HookFrame>>

\* the method returns to the client's code; a panic of Register is
\* recovered by the deferred func of the handler func, which calls the error
\* handler, and a panic during the error handler leaves the handler func
HookCallReturns(p) ==
    /\ fn.at[p] \in HookStages /\ procs[p].pc = "done"
    /\ SetProc(p, IdleProc)
    /\ SetAt(p, IF procs[p].result.status # "panic" THEN fn.at[p]
                ELSE IF fn.at[p] = "error" THEN "none" ELSE "error")
    /\ UNCHANGED HookFrame

\* the stages up to Process are over: if r.IsDebugMode(), or renderError
HookStagesEnd(p) ==
    /\ fn.at[p] = "hook" /\ procs[p].pc = "idle"
    /\ \/ /\ SetProc(p, [IdleProc EXCEPT !.op = "IsDebugMode",
                                          !.pc = FirstPc("IsDebugMode")])
          /\ SetAt(p, "debug")
       \/ /\ SetAt(p, "error")
          /\ UNCHANGED procs
    /\ UNCHANGED HookFrame

\* r.IsDebugMode() has returned: Render
HookRender(p) ==
    /\ fn.at[p] = "debug" /\ procs[p].pc = "done"
    /\ SetProc(p, IdleProc)
    /\ SetAt(p, "render")
    /\ UNCHANGED HookFrame

\* Render has failed: renderError
HookRenderFails(p) ==
    /\ fn.at[p] = "render" /\ procs[p].pc = "idle"
    /\ SetAt(p, "error")
    /\ UNCHANGED <<procs, HookFrame>>

\* Render or the error handler has returned: the handler func returns
HookFinish(p) ==
    /\ fn.at[p] \in {"render", "error"} /\ procs[p].pc = "idle"
    /\ SetAt(p, "none")
    /\ UNCHANGED <<procs, HookFrame>>

\* the steps of a method between its first and its last statement
HookMethodStep(p) ==
    \/ RegisterCheck(p) \/ RegisterExists(p) \/ RegisterInsert(p) \/ Unlock(p)
    \/ ReadDebugMode(p) \/ ListComponents(p) \/ IsRegistered(p) \/ LookupEntry(p)
    \/ RUnlock(p)

NextHooks ==
    \E p \in Procs :
        \/ HookDispatch(p) \/ HookLookedUp(p) \/ HookNotFound(p)
        \/ HookCall(p) \/ HookCallReturns(p)
        \/ HookStagesEnd(p) \/ HookRender(p) \/ HookRenderFails(p) \/ HookFinish(p)
        \/ Lock(p) \/ RLock(p) \/ HookMethodStep(p)

\* a goroutine inside a method of the registry goes on running, and
\* sync.RWMutex lets no goroutine wait for ever while the lock keeps being
\* released (a waiting Lock keeps new readers out; Unlock wakes the waiting
\* readers before the next writer).  The client's code need not go on.
HooksFairness ==
    \A p \in Procs :
        /\ WF_vars(HookMethodStep(p))
        /\ SF_vars(Lock(p))
        /\ SF_vars(RLock(p))

SpecHooks == InitHooks /\ [][NextHooks]_vars /\ HooksFairness

\* ------------------------------------------- the instance of each dispatch
\* Requests for one registered component, TestEventComponent (a Count
\* decoded from the form field count and a history of the calls made on the
\* instance), served by the goroutines of Servers: what each dispatch does
\* with the instance it works on.  The calls succeed, as those of
\* TestEventComponent do; what failing calls lead to is the matter of Spec.

\* most instances allocated in one run
MaxInstances == 3

\* the values of the form field count (none: the field is absent)
FormCounts == {<<>>, <<0>>, <<1>>}

\* the zero value of TestEventComponent
ZeroValue == [Count |-> 0, EventsHistory |-> <<>>]

\* mutant: the dispatches share the instance made for the first of them
reflectNewShared(h) ==
    IF 1 \in DOMAIN h THEN [addr |-> 1, heap |-> h]
    ELSE [addr |-> 1, heap |-> [x \in {1} |-> ZeroValue]]

\* reflect.New(entry.structType): a pointer to a new zero value
reflectNew(h) ==
    LET a == Cardinality(DOMAIN h) + 1 IN
    [addr |-> a,
     heap |-> [x \in DOMAIN h \cup {a} |-> IF x = a THEN ZeroValue ELSE h[x]]]

\* defaultDecoder.Decode(instance, formData): a field of the form is
\* written to the struct field tagged with its name, the other struct
\* fields are left as they are
DecodeForm(v, req) ==
    IF req.count = <<>> THEN v ELSE [v EXCEPT !.Count = req.count[1]]

\* the methods of TestEventComponent
TestEventComponent_BeforeEvent(t, eventName) ==
    [t EXCEPT !.EventsHistory = Append(@, "BeforeEvent:" \o eventName)]
TestEventComponent_OnIncrement(t) ==
    [t EXCEPT !.EventsHistory = Append(@, "OnIncrement"), !.Count = @ + 1]
TestEventComponent_AfterEvent(t, eventName) ==
    [t EXCEPT !.EventsHistory = Append(@, "AfterEvent:" \o eventName)]
TestEventComponent_Process(t) ==
    [t EXCEPT !.EventsHistory = Append(@, "Process")]
TestEventComponent_Render(t) ==
    [t EXCEPT !.EventsHistory = Append(@, "Render")]

InitInstances ==
    /\ decl = [t \in TypeIds |-> PlainType]
    /\ components = << >>
    /\ debugMode = FALSE
    /\ disp = [g \in Goroutines |-> Idle]
    /\ AuxInit

InstFrame == <<decl, components, debugMode, disp, fn, mu, errorHandler, procs, regOk>>

SetServing(s, q) == serving' = [serving EXCEPT ![s] = q]

\* the handler func is called with a request
Serve(s) ==
    /\ serving[s].pc = "idle"
    /\ Cardinality(DOMAIN heap) < MaxInstances
    /\ \E count \in FormCounts, event \in {"none", "increment"} :
          SetServing(s, [IdleServing EXCEPT !.pc = "new",
                                           !.req = [count |-> count, event |-> event]])
    /\ UNCHANGED <<heap, InstFrame>>

\* instance := reflect.New(entry.structType)
NewInstance(s) ==
    /\ serving[s].pc = "new"
    /\ LET n == reflectNew(heap) IN
          /\ heap' = n.heap
          /\ SetServing(s, [serving[s] EXCEPT !.inst = n.addr, !.pc = "decode"])
    /\ UNCHANGED InstFrame

\* decoder.Decode(instance.Interface(), formData); the component has no
\* setter, Init or Validate, so the event check comes next
DecodeInstance(s) ==
    LET q == serving[s] IN
    /\ q.pc = "decode"
    /\ heap' = [heap EXCEPT ![q.inst] = DecodeForm(@, q.req)]
    /\ SetServing(s, [q EXCEPT !.pc = IF q.req.event = "none" THEN "process"
                                      ELSE "event"])
    /\ UNCHANGED InstFrame

\* handleEvent: BeforeEvent, OnIncrement, AfterEvent on the instance; first
\* is the instance as the first of these calls receives it
EventStage(s) ==
    LET q == serving[s] IN
    /\ q.pc = "event"
    /\ heap' = [heap EXCEPT ![q.inst] =
                    TestEventComponent_AfterEvent(
                        TestEventComponent_OnIncrement(
                            TestEventComponent_BeforeEvent(@, q.req.event)),
                        q.req.event)]
    /\ SetServing(s, [q EXCEPT !.first = <<heap[q.inst]>>, !.pc = "process"])
    /\ UNCHANGED InstFrame

\* processor.Process(ctx), the first call on the instance when the request
\* has no event
ProcessStage(s) ==
    LET q == serving[s] IN
    /\ q.pc = "process"
    /\ heap' = [heap EXCEPT ![q.inst] = TestEventComponent_Process(@)]
    /\ SetServing(s, [q EXCEPT !.first = IF @ = <<>> THEN <<heap[q.inst]>> ELSE @,
                               !.pc = "render"])
    /\ UNCHANGED InstFrame

\* component.Render(ctx, w) writes the Count and the history
RenderStage(s) ==
    LET q == serving[s]
        t == TestEventComponent_Render(heap[q.inst])
    IN  /\ q.pc = "render"
        /\ heap' = [heap EXCEPT ![q.inst] = t]
        /\ SetServing(s, [q EXCEPT !.out = [status |-> 200,
                                            body |-> <<t.Count, t.EventsHistory>>],
                                   !.pc = "done"])
        /\ UNCHANGED InstFrame

\* the handler func returns; nothing refers to the instance any more
Respond(s) ==
    /\ serving[s].pc = "done"
    /\ SetServing(s, IdleServing)
    /\ UNCHANGED <<heap, InstFrame>>

NextInstances ==
    \E s \in Servers :
        \/ Serve(s) \/ NewInstance(s) \/ DecodeInstance(s) \/ EventStage(s)
        \/ ProcessStage(s) \/ RenderStage(s) \/ Respond(s)

SpecInstances == InitInstances /\ [][NextInstances]_vars

\* ------------------------------------------- the event field of a request
\* The event check of the handler func by itself, on requests of both
\* methods with any values of hxc-event in the URL query and in the body.

InitEventField ==
    /\ decl = [t \in TypeIds |-> PlainType]
    /\ components = << >>
    /\ debugMode = FALSE
    /\ disp = [g \in Goroutines |-> Idle]
    /\ mu = Unlocked
    /\ errorHandler = "default"
    /\ procs = [p \in Procs |-> IdleProc]
    /\ regOk = [n \in RegNames |-> 0]
    /\ heap = << >>
    /\ serving = [s \in Servers |-> IdleServing]
    /\ fn \in [op : {"eventCheck"}, pc : {"call"}, method : {"GET", "POST"},
                query : EventLists, body : EventLists,
                r : {[Idle EXCEPT !.pc = "event"]}]

\* formData and the check of formData["hxc-event"]
EventField ==
    /\ fn.op = "eventCheck" /\ fn.pc = "call"
    /\ fn' = [fn EXCEPT !.r = DoEventCheck([fn.r EXCEPT !.method = fn.method],
                                           fn.query, fn.body),
                        !.pc = "done"]
    /\ UNCHANGED <<decl, components, debugMode, disp, mu, errorHandler, procs, regOk,
                   heap, serving>>

NextEventField == EventField

SpecEventField == InitEventField /\ [][NextEventField]_vars

\* ------------------------------------------- the URL path of a request
\* Registry.Handler by itself, up to its call of the HandlerFor func, on
\* requests of every method with any URL path: fn holds the request and the
\* dispatch record Handler leaves.

MaxPathLen == 4

\* '/', a character of a valid name and one of no valid name
PathChars == {"/", "a", "<"}

\* a path of n characters after its '/'
LongPath(n) == [i \in 1..(n + 1) |-> IF i = 1 THEN "/" ELSE "a"]

\* req.URL.Path: every short path, and the paths whose names are the longest
\* valid name and the shortest name that is too long
HandlerPaths ==
    SeqsUpTo(PathChars, MaxPathLen)
        \cup {LongPath(MaxComponentNameLen), LongPath(MaxComponentNameLen + 1)}

InitHandlerPath ==
    /\ decl = [t \in TypeIds |-> PlainType]
    /\ components = << >>
    /\ debugMode = FALSE
    /\ disp = [g \in Goroutines |-> Idle]
    /\ mu = Unlocked
    /\ errorHandler = "default"
    /\ procs = [p \in Procs |-> IdleProc]
    /\ regOk = [n \in RegNames |-> 0]
    /\ heap = << >>
    /\ serving = [s \in Servers |-> IdleServing]
    /\ fn \in [op : {"Handler"}, pc : {"call"}, path : HandlerPaths,
                method : HttpMethods, r : {Idle}]

\* r.Handler(w, req)
HandlerPath ==
    /\ fn.op = "Handler" /\ fn.pc = "call"
    /\ fn' = [fn EXCEPT !.r = DoHandler(fn.path, fn.method), !.pc = "done"]
    /\ UNCHANGED <<decl, components, debugMode, disp, mu, errorHandler, procs, regOk,
                   heap, serving>>

NextHandlerPath == HandlerPath

SpecHandlerPath == InitHandlerPath /\ [][NextHandlerPath]_vars

\* ------------------------------------------- the test helpers
\* SimulateEvent(ctx, component, eventName) and SimulateProcess(ctx,
\* component) of testing.go, run by themselves on a component the test made:
\* fn holds the call, the component (its kind, the hooks and the handler
\* methods of its type), the calls made on it so far and what is returned.
\* The helpers have no recover: a panic of a hook leaves them.

NoReturn == [kind |-> "none", text |-> ""]

\* return fmt.Errorf(text ...)
SimulateReturn(f, text) ==
    [f EXCEPT !.ret = [kind |-> "error", text |-> text], !.pc = "done"]

\* a panic of the component's code leaves the helper
SimulatePanic(f) ==
    [f EXCEPT !.ret = [kind |-> "panic", text |-> ""], !.pc = "done"]

SimulateCall(f, op, arg, res) ==
    [f EXCEPT !.log = Append(@, [op |-> op, arg |-> arg, res |-> res])]

\* component == nil, and the checks that it is a pointer to a struct
SimulateCheck(f) ==
    IF KindOf(f.comp) = <<"nil">>
    THEN SimulateReturn(f, "component cannot be nil")
    ELSE IF KindOf(f.comp)[1] # "Ptr" \/ KindOf(f.comp)[2] # "Struct"
    THEN SimulateReturn(f, "component must be a pointer to a struct")
    ELSE [f EXCEPT !.pc = "init"]

\* mutant: SimulateProcess goes on to Process when Init has failed
SimulateInitIgnoresError(f, res) ==
    LET next == IF f.op = "SimulateEvent" THEN "before" ELSE "process" IN
    IF "Initializer" \notin f.hooks THEN [f EXCEPT !.pc = next]
    ELSE LET f1 == SimulateCall(f, "Init", <<>>, res) IN
         CASE res = "panic" -> SimulatePanic(f1)
           [] res = "err" /\ f.op = "SimulateEvent" -> SimulateReturn(f1, "Init failed")
           [] OTHER -> [f1 EXCEPT !.pc = next]

\* Step 1: Init if the component implements Initializer
SimulateInit(f, res) ==
    LET next == IF f.op = "SimulateEvent" THEN "before" ELSE "process" IN
    IF "Initializer" \notin f.hooks THEN [f EXCEPT !.pc = next]
    ELSE LET f1 == SimulateCall(f, "Init", <<>>, res) IN
         CASE res = "ok" -> [f1 EXCEPT !.pc = next]
           [] res = "err" -> SimulateReturn(f1, "Init failed")
           [] res = "panic" -> SimulatePanic(f1)

\* mutant: the error of BeforeEvent is dropped
SimulateBeforeEventIgnoresError(f, res) ==
    IF "BeforeEventHandler" \notin f.hooks THEN [f EXCEPT !.pc = "handler"]
    ELSE LET f1 == SimulateCall(f, "BeforeEvent", f.eventName, res) IN
         CASE res = "panic" -> SimulatePanic(f1)
           [] OTHER -> [f1 EXCEPT !.pc = "handler"]

\* Step 2: BeforeEvent if the component implements BeforeEventHandler
SimulateBeforeEvent(f, res) ==
    IF "BeforeEventHandler" \notin f.hooks THEN [f EXCEPT !.pc = "handler"]
    ELSE LET f1 == SimulateCall(f, "BeforeEvent", f.eventName, res) IN
         CASE res = "ok" -> [f1 EXCEPT !.pc = "handler"]
           [] res = "err" -> SimulateReturn(f1, "BeforeEvent failed")
           [] res = "panic" -> SimulatePanic(f1)

\* Step 3: the method On{EventName}: lookup, checks of its inputs, call and
\* check of its first result
SimulateHandler(f, res) ==
    LET methodName == MethodName(f.eventName)
        found == {m \in f.methods : m.name = methodName}
    IN  IF found = {} THEN SimulateReturn(f, "not found")
        ELSE LET method == CHOOSE m \in found : TRUE
                 f1 == SimulateCall(f, "Handler", methodName, res)
             IN  IF method.numIn # 1 THEN SimulateReturn(f, "must have signature")
                 ELSE IF ~method.ctxIn
                 THEN SimulateReturn(f, "first parameter must be context.Context")
                 ELSE CASE res = "panic" -> SimulatePanic(f1)
                        [] res = "err" /\ FirstResultIsError(method) ->
                              SimulateReturn(f1, "event handler failed")
                        [] OTHER -> [f1 EXCEPT !.pc = "after"]

\* mutant: the helper has no step 4
SimulateAfterEventNotCalled(f, res) == [f EXCEPT !.pc = "process"]

\* Step 4: AfterEvent if the component implements AfterEventHandler
SimulateAfterEvent(f, res) ==
    IF "AfterEventHandler" \notin f.hooks THEN [f EXCEPT !.pc = "process"]
    ELSE LET f1 == SimulateCall(f, "AfterEvent", f.eventName, res) IN
         CASE res = "ok" -> [f1 EXCEPT !.pc = "process"]
           [] res = "err" -> SimulateReturn(f1, "AfterEvent failed")
           [] res = "panic" -> SimulatePanic(f1)

\* the last step: Process if the component implements Processor; return nil
SimulateProcessStep(f, res) ==
    IF "Processor" \notin f.hooks
    THEN [f EXCEPT !.ret = [kind |-> "nil", text |-> ""], !.pc = "done"]
    ELSE LET f1 == SimulateCall(f, "Process", <<>>, res) IN
         CASE res = "ok" -> [f1 EXCEPT !.ret = [kind |-> "nil", text |-> ""],
                                       !.pc = "done"]
           [] res = "err" -> SimulateReturn(f1, "Process failed")
           [] res = "panic" -> SimulatePanic(f1)

\* the components the tests pass: nil, a struct, a pointer to a non-struct,
\* or a pointer to a struct whose type has any hooks and at most one method
\* named OnInc
InitSimulate ==
    /\ decl = [t \in TypeIds |-> PlainType]
    /\ components = << >>
    /\ debugMode = FALSE
    /\ disp = [g \in Goroutines |-> Idle]
    /\ mu = Unlocked
    /\ errorHandler = "default"
    /\ procs = [p \in Procs |-> IdleProc]
    /\ regOk = [n \in RegNames |-> 0]
    /\ heap = << >>
    /\ serving = [s \in Servers |-> IdleServing]
    /\ \E op \in {"SimulateEvent", "SimulateProcess"}, comp \in {"IF", "V", "PN", "T1"},
          hooks \in SUBSET CoreHooks,
          methods \in {{}} \cup {{m} : m \in HandlerShapes},
          eventName \in EventNames :
          /\ comp # "T1" => hooks = {} /\ methods = {}
          /\ (comp # "T1" \/ op = "SimulateProcess") => eventName = <<>>
          /\ fn = [op |-> op, pc |-> "check", comp |-> comp, hooks |-> hooks,
                   methods |-> methods, eventName |-> eventName,
                   log |-> <<>>, ret |-> NoReturn]

SimFrame == <<decl, components, debugMode, disp, mu, errorHandler, procs, regOk,
              heap, serving>>

SimCheck ==
    /\ fn.op \in {"SimulateEvent", "SimulateProcess"} /\ fn.pc = "check"
    /\ fn' = SimulateCheck(fn)
    /\ UNCHANGED SimFrame

SimInit ==
    /\ fn.op \in {"SimulateEvent", "SimulateProcess"} /\ fn.pc = "init"
    /\ \E res \in CallResults : fn' = SimulateInit(fn, res)
    /\ UNCHANGED SimFrame

SimBeforeEvent ==
    /\ fn.op = "SimulateEvent" /\ fn.pc = "before"
    /\ \E res \in CallResults : fn' = SimulateBeforeEvent(fn, res)
    /\ UNCHANGED SimFrame

SimHandler ==
    /\ fn.op = "SimulateEvent" /\ fn.pc = "handler"
    /\ \E res \in CallResults :
          /\ res = "err" =>
                \A m \in fn.methods :
                    m.name = MethodName(fn.eventName) => FirstResultIsError(m)
          /\ fn' = SimulateHandler(fn, res)
    /\ UNCHANGED SimFrame

SimAfterEvent ==
    /\ fn.op = "SimulateEvent" /\ fn.pc = "after"
    /\ \E res \in CallResults : fn' = SimulateAfterEvent(fn, res)
    /\ UNCHANGED SimFrame

SimProcess ==
    /\ fn.op \in {"SimulateEvent", "SimulateProcess"} /\ fn.pc = "process"
    /\ \E res \in CallResults : fn' = SimulateProcessStep(fn, res)
    /\ UNCHANGED SimFrame

NextSimulate ==
    SimCheck \/ SimInit \/ SimBeforeEvent \/ SimHandler \/ SimAfterEvent \/ SimProcess

SpecSimulate == InitSimulate /\ [][NextSimulate]_vars

\* ------------------------------------------- the helpers and the dispatcher
\* One component run twice: by the handler func, from Init to Process, on a
\* request of the program (with hxc-event=e, or without the field), and by
\* the test helper (SimulateEvent with e, or SimulateProcess).  The
\* component is of type T1; what each of its hooks and its handler does is
\* the same in both runs (fn.does), as it is for a component whose fields
\* hold the same values.  fn.r is the dispatch record, fn.sim the helper's
\* call.

\* the calls the two runs are compared on
MirrorOps == {"Init", "BeforeEvent", "Handler", "AfterEvent", "Process"}

\* the hooks behind the calls
MirrorHooks ==
    [Init |-> "Initializer", BeforeEvent |-> "BeforeEventHandler",
     AfterEvent |-> "AfterEventHandler", Process |-> "Processor"]

\* the handler func has left the stages the helpers have: it reports an
\* error or goes on to the response headers and Render
MirrorDispatched(r) == r.pc \in {"error", "outbound"}

InitMirror ==
    /\ components = [n \in {<<"a">>} |-> "T1"]
    /\ debugMode = FALSE
    /\ disp = [g \in Goroutines |-> Idle]
    /\ mu = Unlocked
    /\ errorHandler = "default"
    /\ procs = [p \in Procs |-> IdleProc]
    /\ regOk = [n \in RegNames |-> 0]
    /\ heap = << >>
    /\ serving = [s \in Servers |-> IdleServing]
    /\ \E hooks \in SUBSET CoreHooks,
          methods \in {{}} \cup {{m} : m \in HandlerShapes},
          helper \in {"SimulateEvent", "SimulateProcess"},
          eventName \in EventNames, method \in {"GET", "POST"},
          does \in [MirrorOps -> CallResults] :
          /\ helper = "SimulateProcess" => eventName = <<>>
          /\ \A op \in DOMAIN MirrorHooks :
                MirrorHooks[op] \notin hooks => does[op] = "ok"
          /\ does["Handler"] = "err" => \A m \in methods : FirstResultIsError(m)
          /\ (methods = {} \/ helper = "SimulateProcess") => does["Handler"] = "ok"
          /\ decl = [t \in TypeIds |->
                        IF t = "T1"
                        THEN [hooks |-> hooks, setters |-> {}, getters |-> {},
                              decoder |-> FALSE, methods |-> methods]
                        ELSE PlainType]
          /\ fn = [op |-> "mirror", does |-> does,
                   r |-> [Idle EXCEPT !.pc = "init", !.componentName = <<"a">>,
                                      !.method = method, !.typ = "T1"],
                   sim |-> [op |-> helper, pc |-> "check", comp |-> "T1",
                            hooks |-> hooks, methods |-> methods,
                            eventName |-> eventName, log |-> <<>>,
                            ret |-> NoReturn]]

\* the next stage of the handler func between Decode and the response
\* headers; the request holds one hxc-event field with the helper's event
\* name (in the body of a POST, in the query of a GET), or none
MirrorDispatchStage(r, does, helper, eventName, n) ==
    LET field == IF helper = "SimulateEvent" THEN <<eventName>> ELSE <<>> IN
    CASE r.pc = "init" -> DoInit(r, does["Init"])
      [] r.pc = "validate" -> DoValidate(r, n)
      [] r.pc = "event" ->
            DoEventCheck(r, IF r.method = "GET" THEN field ELSE <<>>,
                         IF r.method = "POST" THEN field ELSE <<>>)
      [] r.pc = "before" -> DoBeforeEvent(r, does["BeforeEvent"])
      [] r.pc = "resolve" -> DoResolve(r)
      [] r.pc = "invoke" -> DoInvoke(r, does["Handler"])
      [] r.pc = "after" -> DoAfterEvent(r, does["AfterEvent"])
      [] r.pc = "process" -> DoProcess(r, does["Process"])

\* the next step of SimulateEvent or SimulateProcess
MirrorHelperStep(f, does) ==
    CASE f.pc = "check" -> SimulateCheck(f)
      [] f.pc = "init" -> SimulateInit(f, does["Init"])
      [] f.pc = "before" -> SimulateBeforeEvent(f, does["BeforeEvent"])
      [] f.pc = "handler" -> SimulateHandler(f, does["Handler"])
      [] f.pc = "after" -> SimulateAfterEvent(f, does["AfterEvent"])
      [] f.pc = "process" -> SimulateProcessStep(f, does["Process"])

MirrorFrame == <<decl, components, debugMode, disp, mu, errorHandler, procs, regOk,
                 heap, serving>>

\* the handler func runs a stage; Validate returns any list of errors
MirrorDispatch ==
    /\ fn.op = "mirror" /\ ~MirrorDispatched(fn.r)
    /\ \E n \in 0..MaxValidationErrors :
          fn' = [fn EXCEPT !.r = MirrorDispatchStage(fn.r, fn.does, fn.sim.op,
                                                     fn.sim.eventName, n)]
    /\ UNCHANGED MirrorFrame

\* the test then calls the helper on its component
MirrorHelper ==
    /\ fn.op = "mirror" /\ MirrorDispatched(fn.r) /\ fn.sim.pc # "done"
    /\ fn' = [fn EXCEPT !.sim = MirrorHelperStep(fn.sim, fn.does)]
    /\ UNCHANGED MirrorFrame

NextMirror == MirrorDispatch \/ MirrorHelper

SpecMirror == InitMirror /\ [][NextMirror]_vars

\* ------------------------------------------------------- reading the trace

\* the calls of log with an operation in ops, as <<operation, argument>>
CallsOf(log, ops) ==
    LET sel == SelectSeq(log, LAMBDA c : c.op \in ops)
    IN  [i \in 1..Len(sel) |-> <<sel[i].op, sel[i].arg>>]

\* the call at position i of r's trace is op and did res
Did(r, i, op, res) == r.log[i].op = op /\ r.log[i].res = res

\* operation op was called in r's dispatch
Called(r, op) == \E i \in 1..Len(r.log) : r.log[i].op = op

\* every call of the dispatch so far returned without error or panic
AllOk(r) == \A i \in 1..Len(r.log) : r.log[i].res = "ok"

EventOps == {"BeforeEvent", "Handler", "AfterEvent"}
LifecycleOps == {"Init", "BeforeEvent", "Handler", "AfterEvent", "Process", "Render"}
GetterOps == {"Get" \o GetterOrder[i] : i \in 1..Len(GetterOrder)}
SetterOps == {"Set" \o SetterOrder[i] : i \in 1..Len(SetterOrder)}

\* the dispatch ended with the component rendered and no error response
Succeeded(r) == r.pc = "done" /\ r.errCalls = <<>>

\* the response carries an outbound directive header
HasDirective(w) == \E h \in w.headers : h.k \in DirectiveHeaders

\* the call at position i ended the dispatch: nothing was called after it,
\* the error handler is about to run or has run with status `code`, and the
\* response, once written, has that status and was not rendered
EndedAt(r, i, code) ==
    /\ i = Len(r.log)
    /\ r.pc \in {"error", "done"}
    /\ ~r.rendered
    /\ r.pc = "error" => r.pending.code = code /\ r.errCalls = <<>>
    /\ r.pc = "done" => /\ Len(r.errCalls) = 1
                        /\ r.errCalls[1].code = code
                        /\ StatusOf(r.w) = code

\* ------------------------------------------------------------------ claims

AllHooks == {"Initializer", "BeforeEventHandler", "AfterEventHandler", "Processor"}

C1_Case(r) ==
    /\ Succeeded(r)
    /\ r.formData # <<>>
    /\ AllHooks \subseteq TypeOf(r).hooks

\* C1: a dispatch of a request carrying event e to a component with Init,
\* BeforeEvent, On<Capitalize(e)>, AfterEvent and Process, in which no stage
\* fails, calls exactly Init, BeforeEvent(e), On<Capitalize(e)>,
\* AfterEvent(e), Process, Render, in this order, each once.
C1_EventLifecycleOrder ==
    \A g \in Goroutines :
        LET r == disp[g] IN
        C1_Case(r) =>
            CallsOf(r.log, LifecycleOps) =
                << <<"Init", <<>> >>,
                   <<"BeforeEvent", r.formData[1]>>,
                   <<"Handler", <<"O", "n">> \o capitalize(r.formData[1])>>,
                   <<"AfterEvent", r.formData[1]>>,
                   <<"Process", <<>> >>,
                   <<"Render", <<>> >> >>

C1_Witness ==
    \E g \in Goroutines :
        C1_Case(disp[g]) /\ disp[g].formData[1] = <<"i", "n", "c">>
                         /\ disp[g].method = "GET"

C2_Expected(r) ==
    (IF "Initializer" \in TypeOf(r).hooks THEN << <<"Init", <<>> >> >> ELSE <<>>)
    \o (IF "Processor" \in TypeOf(r).hooks THEN << <<"Process", <<>> >> >> ELSE <<>>)
    \o << <<"Render", <<>> >> >>

\* C2: a request with no event field never has BeforeEvent, a handler or
\* AfterEvent called; when no stage fails the dispatcher calls Init (if
\* implemented), Process (if implemented) and Render, in this order, and on a
\* component with none of the optional hooks Render alone.
C2_NoEventLifecycle ==
    \A g \in Goroutines :
        LET r == disp[g] IN
        /\ r.formData = <<>> => ~(\E op \in EventOps : Called(r, op))
        /\ (Succeeded(r) /\ r.formData = <<>>) =>
              /\ CallsOf(r.log, LifecycleOps) = C2_Expected(r)
              /\ TypeOf(r).hooks = {} =>
                    CallsOf(r.log, LifecycleOps \cup {"Validate"})
                        = << <<"Render", <<>> >> >>
              /\ TypeOf(r) = PlainType =>
                    CallsOf(r.log, {r.log[i].op : i \in 1..Len(r.log)} \ {"Decode"})
                        = << <<"Render", <<>> >> >>

C2_Witness ==
    \E g \in Goroutines :
        /\ Succeeded(disp[g]) /\ disp[g].formData = <<>>
        /\ disp[g].method = "POST"
        /\ TypeOf(disp[g]).hooks = CoreHooks

C2_WitnessPlain ==
    \E g \in Goroutines :
        /\ Succeeded(disp[g]) /\ disp[g].formData = <<>>
        /\ TypeOf(disp[g]) = PlainType

\* C3: when BeforeEvent returns an error nothing more is called in that
\* dispatch (no handler, AfterEvent, Process, getter or Render) and the
\* response has status 500.
C3_BeforeEventErrorStops ==
    \A g \in Goroutines :
        LET r == disp[g] IN
        \A i \in 1..Len(r.log) :
            Did(r, i, "BeforeEvent", "err") =>
                EndedAt(r, i, 500) /\ ~HasDirective(r.w)

C3_Witness ==
    \E g \in Goroutines :
        /\ disp[g].pc = "done"
        /\ \E i \in 1..Len(disp[g].log) : Did(disp[g], i, "BeforeEvent", "err")

\* the handler method the dispatch resolved returns an error
ReturnsError(r) ==
    \E m \in MethodByName(r, r.methodName) :
        Len(m.results) > 0 /\ m.results[1] = "error"

\* C4: when the event handler returns a non-nil error nothing more is called
\* in that dispatch (no AfterEvent, Process or Render), BeforeEvent, if
\* implemented, was called just before the handler, and the response has
\* status 500.
C4_HandlerErrorStops ==
    \A g \in Goroutines :
        LET r == disp[g] IN
        \A i \in 1..Len(r.log) :
            (Did(r, i, "Handler", "err") /\ ReturnsError(r)) =>
                /\ EndedAt(r, i, 500)
                /\ "BeforeEventHandler" \in TypeOf(r).hooks =>
                      i > 1 /\ Did(r, i - 1, "BeforeEvent", "ok")

C4_Witness ==
    \E g \in Goroutines :
        /\ disp[g].pc = "done"
        /\ \E i \in 1..Len(disp[g].log) : Did(disp[g], i, "Handler", "err")
        /\ "BeforeEventHandler" \in TypeOf(disp[g]).hooks

\* C5: when AfterEvent returns an error (the handler having succeeded)
\* nothing more is called in that dispatch (no Process, getter or Render) and
\* the response has status 500.
C5_AfterEventErrorStops ==
    \A g \in Goroutines :
        LET r == disp[g] IN
        \A i \in 1..Len(r.log) :
            Did(r, i, "AfterEvent", "err") =>
                /\ EndedAt(r, i, 500) /\ ~HasDirective(r.w)
                /\ i > 1 /\ Did(r, i - 1, "Handler", "ok")

C5_Witness ==
    \E g \in Goroutines :
        /\ disp[g].pc = "done"
        /\ \E i \in 1..Len(disp[g].log) : Did(disp[g], i, "AfterEvent", "err")
        /\ "Processor" \in TypeOf(disp[g]).hooks

\* sub occurs in the string s
Contains(s, sub) ==
    \E i \in 0..(Len(s) - Len(sub)) : SubSeq(s, i + 1, i + Len(sub)) = sub

\* a text made of pieces holds the run-time value s / the literal t
TextHasValue(text, s) ==
    \E i \in 1..Len(text) : "val" \in DOMAIN text[i] /\ Contains(text[i].val, s)
TextHasLit(text, t) == \E i \in 1..Len(text) : text[i] = Lit(t)

\* the dispatch reached the lookup of the handler of its event, and the
\* instance has no method of that name
C6_Case(r) ==
    /\ r.pc = "done" /\ r.hasEvent /\ AllOk(r)
    /\ MethodByName(r, MethodName(r.eventName)) = {}

\* what C6 holds of the dispatch before the body is looked at
C6_Outcome(r) ==
    /\ r.err = [type |-> "ErrEventNotFound", ComponentName |-> r.componentName,
                EventName |-> r.eventName]
    /\ ~Called(r, "Process") /\ ~Called(r, "Render") /\ ~r.rendered
    /\ StatusOf(r.w) = 500
    /\ Len(r.errCalls) = 1 /\ r.errCalls[1].code = 500
    /\ TextHasValue(r.errCalls[1].message, r.eventName)
    /\ TextHasLit(r.errCalls[1].message, "not found")
    /\ Len(r.w.body) = 1

\* C6 as stated: when the instance has no method On<Capitalize(e)> the
\* dispatch fails with the event-not-found error holding the component and
\* event names, Process and Render are not called, the status is 500 and the
\* body holds e and "not found".
C6_BodyHoldsEventName ==
    \A g \in Goroutines :
        LET r == disp[g] IN
        C6_Case(r) =>
            /\ C6_Outcome(r)
            /\ TextHasValue(r.w.body[1].message, r.eventName)
            /\ TextHasLit(r.w.body[1].message, "not found")

\* C6 (amended): when the instance has no method On<Capitalize(e)> the
\* dispatch fails with the event-not-found error holding the component and
\* event names, Process and Render are not called, the error handler is
\* called once with status 500 and a message holding e and "not found", and
\* the body holds "not found" and e as the page writes it: HTML-escaped on
\* the fallback page of the default handler.
C6_MissingHandler ==
    \A g \in Goroutines :
        LET r == disp[g] IN
        C6_Case(r) =>
            /\ C6_Outcome(r)
            /\ TextHasLit(r.w.body[1].message, "not found")
            /\ TextHasValue(r.w.body[1].message,
                            IF r.w.body[1].page = "fallback"
                            THEN EscapeString(r.eventName) ELSE r.eventName)

C6_Witness ==
    \E g \in Goroutines :
        /\ C6_Case(disp[g])
        /\ disp[g].eventName = <<"a", "<">>
        /\ disp[g].w.body[1].page = "fallback"

\* C7: when Decode fails the response has status 400 and nothing was or is
\* called on the instance besides GetFormDecoder: no lifecycle hook, no
\* inbound setter, no outbound getter.
C7_DecodeErrorStops ==
    \A g \in Goroutines :
        LET r == disp[g] IN
        \A i \in 1..Len(r.log) :
            Did(r, i, "Decode", "err") =>
                /\ EndedAt(r, i, 400)
                /\ \A j \in 1..Len(r.log) : r.log[j].op \in {"GetFormDecoder", "Decode"}

C7_Witness ==
    \E g \in Goroutines :
        /\ disp[g].pc = "done"
        /\ \E i \in 1..Len(disp[g].log) : Did(disp[g], i, "Decode", "err")
        /\ TypeOf(disp[g]).hooks = CoreHooks
        /\ TypeOf(disp[g]).setters # {}

\* C8: when Init returns an error nothing more is called on the instance
\* (no Validate, event branch, Process, getter or Render) and the error
\* handler runs, once, with status 500.
C8_InitErrorStops ==
    \A g \in Goroutines :
        LET r == disp[g] IN
        \A i \in 1..Len(r.log) :
            Did(r, i, "Init", "err") =>
                /\ EndedAt(r, i, 500)
                /\ ~r.hasEvent /\ ~HasDirective(r.w)

C8_Witness ==
    \E g \in Goroutines :
        /\ disp[g].pc = "done"
        /\ \E i \in 1..Len(disp[g].log) : Did(disp[g], i, "Init", "err")
        /\ TypeOf(disp[g]).hooks = CoreHooks

\* C9: when Process returns an error no directive header is set and Render
\* is not called; a response carries a directive header only if Process, when
\* implemented, returned without error and every call made before the
\* outbound pass succeeded.
C9_DirectivesOnlyAfterProcess ==
    \A g \in Goroutines :
        LET r == disp[g] IN
        /\ \A i \in 1..Len(r.log) :
              Did(r, i, "Process", "err") =>
                  EndedAt(r, i, 500) /\ ~HasDirective(r.w)
        /\ HasDirective(r.w) =>
              /\ "Processor" \in TypeOf(r).hooks =>
                    \E i \in 1..Len(r.log) : Did(r, i, "Process", "ok")
              /\ \A i \in 1..Len(r.log) :
                    r.log[i].op \notin GetterOps \cup {"Render"} => r.log[i].res = "ok"

C9_Witness ==
    \E g \in Goroutines :
        /\ disp[g].pc = "done"
        /\ \E i \in 1..Len(disp[g].log) : Did(disp[g], i, "Process", "err")
        /\ TypeOf(disp[g]).getters # {}

C9_WitnessDirective ==
    \E g \in Goroutines :
        /\ Succeeded(disp[g]) /\ HasDirective(disp[g].w)
        /\ "Processor" \in TypeOf(disp[g]).hooks

\* C10: whatever number of validation errors Validate returns, the dispatch
\* goes on to the event check with the response and the error handler
\* untouched, as it does when Validate returns none.
C10_ValidationNeverTerminates ==
    [][\A g \in Goroutines :
          (disp[g].pc = "validate" /\ disp'[g] # disp[g] /\ ~disp'[g].panicked) =>
              /\ disp'[g].pc = "event"
              /\ disp'[g].w = disp[g].w
              /\ disp'[g].errCalls = disp[g].errCalls
              /\ disp'[g].pending = disp[g].pending
              /\ [disp'[g] EXCEPT !.valErrs = 0, !.pc = "validate"] =
                    IF "Validator" \in TypeOf(disp[g]).hooks
                    THEN Call(disp[g], "Validate", <<>>, "ok")
                    ELSE disp[g]]_vars

C10_Witness ==
    \E g \in Goroutines :
        /\ Succeeded(disp[g]) /\ disp[g].rendered
        /\ disp[g].valErrs > 0
        /\ StatusOf(disp[g].w) = 200

\* the shape handleEvent documents: On<Event>(ctx context.Context) error
RequiredShape(m) == m.numIn = 1 /\ m.ctxIn /\ m.results = <<"error">>

SignatureErrors == {"must have signature", "first parameter must be context.Context"}

\* the method of the dispatch's event exists and has not the required shape
C11_Case(r) ==
    /\ r.hasEvent
    /\ MethodByName(r, MethodName(r.eventName)) # {}
    /\ \A m \in MethodByName(r, MethodName(r.eventName)) : ~RequiredShape(m)

\* C11: when On<Capitalize(e)> exists without the shape (one context input,
\* one error result) the method is never called, nor are AfterEvent, Process
\* and Render, and the dispatch that reached the handler ends with a
\* signature error (status 500).
C11_InvalidSignatureRejected ==
    \A g \in Goroutines :
        LET r == disp[g] IN
        C11_Case(r) =>
            /\ ~Called(r, "Handler") /\ ~Called(r, "AfterEvent")
            /\ ~Called(r, "Process") /\ ~Called(r, "Render")
            /\ (r.pc = "done" /\ AllOk(r)) =>
                  r.err.type \in SignatureErrors /\ StatusOf(r.w) = 500

\* the request of the dispatch carries no event name: the hxc-event field is
\* absent, or its value is the empty string
C12_NoEventName(r) == r.formData = <<>> \/ r.formData[1] = <<>>

\* C12: the event branch is entered only for a non-empty event name: when
\* the hxc-event field is absent or its value is empty, BeforeEvent, the
\* handler and AfterEvent are never called, no event error arises, and the
\* dispatch goes from Validate to Process.
C12_EventBranchNeedsName ==
    \A g \in Goroutines :
        LET r == disp[g] IN
        C12_NoEventName(r) =>
            /\ \A op \in EventOps : ~Called(r, op)
            /\ r.pc \notin {"before", "resolve", "invoke", "after"}
            /\ ~r.hasEvent /\ r.err = NoError

\* the first character of s (one byte, or the two bytes of a character that
\* starts with C3) and the rest of s
FirstChar(s) ==
    IF Len(s) >= 2 /\ s[1] = "C3" THEN SubSeq(s, 1, 2) ELSE SubSeq(s, 1, 1)
RestChars(s) == SubSeq(s, Len(FirstChar(s)) + 1, Len(s))

\* the upper-case form of one character
UpperOfChar(c) ==
    IF c = <<"C3", "A9">> THEN <<"C3", "89">>
    ELSE IF Len(c) = 1 THEN <<ToUpperChar(c[1])>> ELSE c

\* "On" followed by s with its first character upper-cased
C13_Expected(s) ==
    <<"O", "n">> \o (IF s = <<>> THEN <<>> ELSE UpperOfChar(FirstChar(s)) \o RestChars(s))

\* C13: the handler method looked up for event name s is "On" followed by s
\* with its first character upper-cased and every other character
\* unchanged, and a method is found exactly when one of exactly that name is
\* declared.
C13_MethodNameOfEvent ==
    /\ (fn.op = "handleEvent" /\ fn.pc # "name") =>
          fn.methodName = C13_Expected(fn.eventName)
    /\ (fn.op = "handleEvent" /\ fn.pc = "done") =>
          (fn.valid <=> C13_Expected(fn.eventName) \in fn.declared)

\* the status the claim gives a finished dispatch: by the call that failed,
\* or (no call returned an error) by the failure the dispatcher reported
C14_ExpectedStatus(r) ==
    LET n == Len(r.log) IN
    IF r.errCalls = <<>> THEN 200
    ELSE IF n > 0 /\ r.log[n].res = "err"
    THEN (IF r.log[n].op = "Decode" THEN 400 ELSE 500)
    ELSE CASE r.errCalls[1].title = "Method Not Allowed" -> 405
           [] r.errCalls[1].title = "Component Not Found" -> 404
           [] r.errCalls[1].title = "Bad Request" -> 400
           [] OTHER -> 500

\* C14: the status of every response is the one of its outcome: 405 for a
\* method other than GET and POST, 404 for an unregistered name, 400 for an
\* empty or malformed name and a form-parse or decode failure, 500 for a
\* failure of Init, BeforeEvent, handler resolution, the handler,
\* AfterEvent, Process or Render, 200 when Render succeeds.
C14_StatusByOutcome ==
    \A g \in Goroutines :
        LET r == disp[g] IN
        r.pc = "done" =>
            /\ StatusOf(r.w) = C14_ExpectedStatus(r)
            /\ r.errCalls = <<>> => r.rendered

\* C15: a panic in a stage is the last call of its dispatch; it is recovered
\* (it does not leave the handler func) and answered by one call of the
\* error handler with status 500.
C15_PanicRecovered ==
    \A g \in Goroutines :
        LET r == disp[g] IN
        \A i \in 1..Len(r.log) :
            r.log[i].res = "panic" =>
                /\ i = Len(r.log)
                /\ r.pc \in {"error", "done"}
                /\ ~r.rendered
                /\ r.pc = "error" => r.pending.code = 500 /\ r.errCalls = <<>>
                /\ r.pc = "done" => Len(r.errCalls) = 1 /\ r.errCalls[1].code = 500

C15_Witness ==
    \E g \in Goroutines :
        /\ disp[g].pc = "done"
        /\ Len(disp[g].log) > 2
        /\ disp[g].log[Len(disp[g].log)].res = "panic"
        /\ disp[g].log[Len(disp[g].log)].op = "Process"

\* C16: for each name at most one Register call adds an entry; a Register
\* call for a name that has an entry panics, and an entry once made is never
\* replaced or removed, also when two goroutines register the name at once.
C16_Valid(q) == q.op = "Register" /\ q.name # <<>> /\ q.typ \in TypeIds
C16_AtMostOneRegister ==
    /\ [](/\ \A n \in RegNames :
                /\ regOk[n] <= 1
                /\ regOk[n] = 1 <=> n \in DOMAIN components
          /\ \A p \in Procs : LET q == procs[p] IN
                (C16_Valid(q) /\ q.pc \in {"unlock", "done"}) =>
                    /\ q.result.status \in {"ok", "panic"}
                    /\ q.name \in DOMAIN components
                    /\ q.result.status = "ok" => components[q.name] = q.typ
          /\ \A p1, p2 \in Procs :
                (/\ p1 # p2
                 /\ C16_Valid(procs[p1]) /\ C16_Valid(procs[p2])
                 /\ procs[p1].name = procs[p2].name
                 /\ procs[p1].pc = "done" /\ procs[p2].pc = "done")
                => ~(procs[p1].result.status = "ok" /\ procs[p2].result.status = "ok"))
    /\ [][\A n \in DOMAIN components :
              n \in DOMAIN components' /\ components'[n] = components[n]]_vars
C16_Witness ==
    /\ C16_Valid(procs["p1"]) /\ C16_Valid(procs["p2"])
    /\ procs["p1"].name = procs["p2"].name
    /\ procs["p1"].typ # procs["p2"].typ
    /\ procs["p1"].pc = "done" /\ procs["p2"].pc = "done"
    /\ procs["p1"].result.status = "panic"
    /\ procs["p2"].result.status = "ok"
    /\ components[procs["p1"].name] = procs["p2"].typ

\* C17: a Register call with the empty name, with a type that is no pointer
\* or with a pointer to something that is no struct panics at once: it takes
\* no lock and leaves the table as it was, so a name that had no entry has
\* none afterwards; every entry of the table has a non-empty name and a
\* pointer-to-struct type.
C17_Invalid(q) ==
    \/ q.name = <<>>
    \/ q.typ \notin {t \in TypeParams : KindOf(t) = <<"Ptr", "Struct">>}
C18_Registered == {n \in RegNames : regOk[n] > 0}
C18_QueriesAgree ==
    \A p \in Procs : LET q == procs[p] IN
      q.pc = "runlock" =>
        /\ q.op = "IsRegistered" => q.result.val = <<q.name \in C18_Registered>>
        /\ q.op = "ListComponents" =>
              LET l == q.result.val IN
              /\ {l[i] : i \in 1..Len(l)} = C18_Registered
              /\ \A i \in 1..Len(l) : \A j \in (i + 1)..Len(l) : StringLess(l[i], l[j])
        /\ q.op = "GetComponentInfo" =>
              /\ q.result.status = "ErrComponentNotFound" <=> q.name \notin C18_Registered
              /\ q.result.status = "ok" => q.result.val[1] = q.name
C18_Witness ==
    /\ procs["p1"].op = "ListComponents" /\ procs["p1"].pc = "runlock"
    /\ Len(procs["p1"].result.val) = 2
    /\ procs["p1"].result.val[2] = <<"a", "b">>
    /\ procs["p2"].op = "GetComponentInfo" /\ procs["p2"].pc = "runlock"
    /\ procs["p2"].result.status = "ErrComponentNotFound"

\* C19: every goroutine about to read or write components, debugMode or
\* errorHandler holds the registry's lock (the write lock for a write), and
\* no two goroutines are about to access the same field with one of them
\* writing.
C19_Access(p) ==
    LET q == procs[p] IN
    CASE q.pc = "exists" -> [field |-> "components", write |-> FALSE]
      [] q.pc = "insert" -> [field |-> "components", write |-> TRUE]
      [] q.pc = "write" /\ q.op = "SetErrorHandler" ->
            [field |-> "errorHandler", write |-> TRUE]
      [] q.pc = "write" /\ q.op # "SetErrorHandler" ->
            [field |-> "debugMode", write |-> TRUE]
      [] q.pc = "read" /\ q.op = "IsDebugMode" ->
            [field |-> "debugMode", write |-> FALSE]
      [] q.pc = "read" /\ q.op # "IsDebugMode" ->
            [field |-> "components", write |-> FALSE]
      [] q.pc = "call" -> [field |-> "errorHandler", write |-> FALSE]
      [] OTHER -> [field |-> "none", write |-> FALSE]
C19_AllAccessesUnderLock ==
    /\ \A p \in Procs : LET a == C19_Access(p) IN
          a.field # "none" =>
              IF a.write THEN mu.w = p ELSE (mu.w = p \/ p \in mu.r)
    /\ \A p1, p2 \in Procs : LET a1 == C19_Access(p1)  a2 == C19_Access(p2) IN
          (p1 # p2 /\ a1.field # "none" /\ a1.field = a2.field)
              => ~(a1.write \/ a2.write)
\* the part of C19 that is about the two fields taken under the lock
C19_LockedFields ==
    /\ \A p \in Procs : LET a == C19_Access(p) IN
          a.field \in {"components", "debugMode"} =>
              IF a.write THEN mu.w = p ELSE (mu.w = p \/ p \in mu.r)
    /\ \A p1, p2 \in Procs : LET a1 == C19_Access(p1)  a2 == C19_Access(p2) IN
          (p1 # p2 /\ a1.field \in {"components", "debugMode"} /\ a1.field = a2.field)
              => ~(a1.write \/ a2.write)
\* a write and a read of errorHandler that no lock orders
C19_Race ==
    /\ C19_Access("p1") = [field |-> "errorHandler", write |-> TRUE]
    /\ C19_Access("p2") = [field |-> "errorHandler", write |-> FALSE]
    /\ mu = Unlocked

\* C20: after the outbound pass the response has the header of a directive
\* exactly when the instance implements its getter and the getter returned a
\* non-empty string (true for the refresh flag), with the value returned
\* ("true" for the refresh flag); the pass sets no other header, and every
\* implemented getter was called once.
C20_Returned(gt) ==
    IF gt = "HxRefresh" THEN fn.refresh ELSE fn.strs[gt] # ""
C20_DirectiveIffGetterNonEmpty ==
    (fn.op = "applyHxResponseHeaders" /\ fn.pc = "done") =>
        /\ \A gt \in Range(GetterOrder) :
              /\ HasHeader(fn.r.w, HeaderKey(gt))
                    <=> (gt \in fn.getters /\ C20_Returned(gt))
              /\ (gt \in fn.getters /\ C20_Returned(gt)) =>
                    [k |-> HeaderKey(gt),
                     v |-> IF gt = "HxRefresh" THEN "true" ELSE fn.strs[gt]]
                        \in fn.r.w.headers
        /\ \A h \in fn.r.w.headers : h.k \in DirectiveHeaders
        /\ Cardinality(fn.r.w.headers)
              = Cardinality({gt \in fn.getters : C20_Returned(gt)})
        /\ Cardinality({i \in 1..Len(fn.r.log) : fn.r.log[i].op \in GetterOps})
              = Cardinality(fn.getters)
C20_Witness ==
    /\ fn.op = "applyHxResponseHeaders" /\ fn.pc = "done"
    /\ {"HxRedirect", "HxLocation", "HxRefresh", "HxTrigger"} \subseteq fn.getters
    /\ "HxReswap" \notin fn.getters
    /\ fn.strs["HxRedirect"] = "" /\ fn.strs["HxLocation"] # "" /\ fn.refresh
    /\ HasHeader(fn.r.w, "HX-Location") /\ HasHeader(fn.r.w, "HX-Refresh")
    /\ ~HasHeader(fn.r.w, "HX-Redirect")

\* C21: every dispatch works on an instance of its own: no two dispatches
\* in progress hold the same instance; the instance the first stage receives
\* is the zero value with the fields the request carries decoded into it;
\* and the response of a dispatch (status, Count and the calls made, as the
\* history shows them) is the one its request alone determines, whatever
\* dispatches ran before it or run beside it.
C21_Decoded(req) ==
    [Count |-> IF req.count = <<>> THEN 0 ELSE req.count[1], EventsHistory |-> <<>>]
C21_Expected(req) ==
    [status |-> 200,
     body |-> IF req.event = "none"
              THEN <<C21_Decoded(req).Count, <<"Process", "Render">> >>
              ELSE <<C21_Decoded(req).Count + 1,
                     <<"BeforeEvent:increment", "OnIncrement", "AfterEvent:increment",
                       "Process", "Render">> >>]
C21_FreshInstance ==
    /\ \A s1, s2 \in Servers :
          (s1 # s2 /\ serving[s1].inst # 0 /\ serving[s2].inst # 0)
              => serving[s1].inst # serving[s2].inst
    /\ \A s \in Servers : LET q == serving[s] IN
          /\ q.pc = "decode" => heap[q.inst] = ZeroValue
          /\ q.first # <<>> => q.first[1] = C21_Decoded(q.req)
          /\ q.pc = "done" => q.out = C21_Expected(q.req)
C21_Witness ==
    /\ Cardinality(DOMAIN heap) = 3
    /\ heap[1].Count = 2
    /\ serving["s1"].pc = "done" /\ serving["s2"].pc = "done"
    /\ serving["s1"].req = [count |-> <<>>, event |-> "increment"]
    /\ serving["s2"].req = [count |-> <<>>, event |-> "none"]

\* C22: no dispatch calls Render more than once, and a dispatch that has
\* ended called Render once exactly when every stage before Render succeeded
\* (no call before Render returned an error or panicked, and the request was
\* not refused for its method, its component name, its form or its event
\* handler), whatever hooks the type implements and with or without an event.
C22_Renders(r) == Cardinality({i \in 1..Len(r.log) : r.log[i].op = "Render"})
C22_Refusals == {"Method Not Allowed", "Component Not Found", "Bad Request",
                 "Event Error"}
C22_EarlierStageFailed(r) ==
    \/ \E i \in 1..Len(r.log) : r.log[i].op # "Render" /\ r.log[i].res # "ok"
    \/ \E i \in 1..Len(r.errCalls) : r.errCalls[i].title \in C22_Refusals
C22_RenderExactlyOnce ==
    \A g \in Goroutines : LET r == disp[g] IN
        /\ C22_Renders(r) <= 1
        /\ r.pc = "done" =>
              C22_Renders(r) = IF C22_EarlierStageFailed(r) THEN 0 ELSE 1
C22_Witness ==
    \E g \in Goroutines : LET r == disp[g] IN
        /\ r.pc = "done" /\ r.typ = "T1"
        /\ TypeOf(r).hooks = {} /\ ~r.hasEvent
        /\ C22_Renders(r) = 1 /\ r.rendered

\* C23: the error handler is never invoked more than once in a dispatch; a
\* dispatch that has ended either rendered its component (Render returned
\* nil) without any call of the error handler, or did not and the error
\* handler was called exactly once, with the status code of the failure; and
\* no dispatch leaves the handler func by a panic.
C23_ErrorHandlerExactlyOnce ==
    \A g \in Goroutines : LET r == disp[g] IN
        /\ Len(r.errCalls) <= 1
        /\ (r.pc = "crashed" => r.componentName = <<>> /\ r.log = <<>>)
        /\ r.pc = "done" =>
              \/ /\ r.rendered /\ r.errCalls = <<>>
                 /\ r.log # <<>> /\ Did(r, Len(r.log), "Render", "ok")
              \/ /\ ~r.rendered /\ Len(r.errCalls) = 1
                 /\ r.errCalls[1].code = C14_ExpectedStatus(r)
\* the dispatches C23 fails for: the installed handler was called twice
C23_CalledTwice ==
    \E g \in Goroutines : Len(disp[g].errCalls) = 2 /\ disp[g].pc = "done"

\* the calls a helper is to make on a component with the hooks of f, in order
C24_Steps(f) ==
    SelectSeq(<< <<"Initializer", "Init", <<>> >>,
                 <<"BeforeEventHandler", "BeforeEvent", f.eventName>>,
                 <<"", "Handler", C13_Expected(f.eventName)>>,
                 <<"AfterEventHandler", "AfterEvent", f.eventName>>,
                 <<"Processor", "Process", <<>> >> >>,
              LAMBDA st : st[1] = "" \/ st[1] \in f.hooks)
C24_FailureText(op) ==
    CASE op = "Init" -> "Init failed"
      [] op = "BeforeEvent" -> "BeforeEvent failed"
      [] op = "Handler" -> "event handler failed"
      [] op = "AfterEvent" -> "AfterEvent failed"
      [] op = "Process" -> "Process failed"
\* C24: the calls SimulateEvent has made on a pointer-to-struct component
\* are the first ones of Init, BeforeEvent(e), On<Capitalize(e)>,
\* AfterEvent(e), Process (the hooks its type implements), in that order, each
\* but the last having succeeded, and never Render or Validate; when it has
\* returned, it returned nil exactly when all of them were made and
\* succeeded, and otherwise the error of the step that failed: the failed
\* call's, or for a handler that was not called "not found" or the error of
\* its signature.
C24_SimulateEventLifecycle ==
    (fn.op = "SimulateEvent" /\ KindOf(fn.comp) = <<"Ptr", "Struct">>) =>
        LET steps == C24_Steps(fn)
            n == Len(fn.log)
        IN  /\ n <= Len(steps)
            /\ \A i \in 1..n :
                  /\ fn.log[i].op = steps[i][2] /\ fn.log[i].arg = steps[i][3]
                  /\ i < n => fn.log[i].res = "ok"
            /\ (n > 0 /\ fn.log[n].res # "ok") => fn.pc = "done"
            /\ fn.pc = "done" =>
                  /\ fn.ret.kind = "nil" <=>
                        (n = Len(steps) /\ \A i \in 1..n : fn.log[i].res = "ok")
                  /\ (n > 0 /\ fn.log[n].res = "err") =>
                        fn.ret = [kind |-> "error", text |-> C24_FailureText(fn.log[n].op)]
                  /\ (n > 0 /\ fn.log[n].res = "panic") => fn.ret.kind = "panic"
                  /\ (n < Len(steps) /\ \A i \in 1..n : fn.log[i].res = "ok") =>
                        /\ steps[n + 1][2] = "Handler"
                        /\ fn.ret.kind = "error"
                        /\ fn.ret.text \in {"not found"} \cup SignatureErrors
                        /\ fn.ret.text = "not found" <=>
                              ~\E m \in fn.methods : m.name = C13_Expected(fn.eventName)
C24_Witness ==
    /\ fn.op = "SimulateEvent" /\ fn.pc = "done"
    /\ fn.hooks = CoreHooks
    /\ Len(fn.log) = 4 /\ fn.log[4].op = "AfterEvent" /\ fn.log[4].res = "err"
    /\ fn.ret.text = "AfterEvent failed"

\* C25: the calls SimulateProcess has made on a pointer-to-struct component
\* are Init and then Process (those its type implements) and nothing else;
\* Process is not called when Init failed, and the error is then "Init
\* failed"; on a component with neither hook it calls nothing and returns
\* nil.
C25_SimulateProcessLifecycle ==
    (fn.op = "SimulateProcess" /\ KindOf(fn.comp) = <<"Ptr", "Struct">>) =>
        LET steps == SelectSeq(<< <<"Initializer", "Init">>, <<"Processor", "Process">> >>,
                               LAMBDA st : st[1] \in fn.hooks)
            n == Len(fn.log)
        IN  /\ n <= Len(steps)
            /\ \A i \in 1..n :
                  /\ fn.log[i].op = steps[i][2]
                  /\ i < n => fn.log[i].res = "ok"
            /\ (n > 0 /\ fn.log[1].op = "Init" /\ fn.log[1].res = "err") =>
                  /\ n = 1
                  /\ fn.ret = [kind |-> "error", text |-> "Init failed"]
            /\ fn.pc = "done" =>
                  /\ fn.ret.kind = "nil" <=>
                        (n = Len(steps) /\ \A i \in 1..n : fn.log[i].res = "ok")
                  /\ fn.hooks \cap {"Initializer", "Processor"} = {} =>
                        fn.log = <<>> /\ fn.ret.kind = "nil"
C25_Witness ==
    /\ fn.op = "SimulateProcess" /\ fn.pc = "done"
    /\ fn.hooks = CoreHooks /\ fn.methods # {}
    /\ Len(fn.log) = 1 /\ fn.log[1].res = "err"
    /\ fn.ret.text = "Init failed"

\* the calls made on the instance after the inbound pass
C26_LaterOps == LifecycleOps \cup {"Validate"} \cup GetterOps
\* C26: in every dispatch each setter is called at most once and only if the
\* instance's type implements it, after Decode has succeeded and before Init
\* and every later call; SetHttpMethod receives the request's method; when
\* Init or a later stage is called every implemented setter has returned
\* before it; and no setter is called when Decode failed or the type
\* implements none.
C26_InboundOnceBeforeInit ==
    \A g \in Goroutines : LET r == disp[g] IN
        /\ \A i \in 1..Len(r.log) : r.log[i].op \in SetterOps =>
              /\ \E st \in TypeOf(r).setters : r.log[i].op = "Set" \o st
              /\ \A j \in 1..Len(r.log) : r.log[j].op = r.log[i].op => j = i
              /\ \E j \in 1..(i - 1) : Did(r, j, "Decode", "ok")
              /\ \A j \in 1..(i - 1) : r.log[j].op \notin C26_LaterOps
              /\ r.log[i].op = "SetHttpMethod" => r.log[i].arg = <<r.method>>
        /\ \A i \in 1..Len(r.log) : r.log[i].op \in C26_LaterOps =>
              \A st \in TypeOf(r).setters :
                  \E j \in 1..(i - 1) : Did(r, j, "Set" \o st, "ok")
        /\ (\E i \in 1..Len(r.log) : r.log[i].op = "Decode" /\ r.log[i].res # "ok")
              => ~\E i \in 1..Len(r.log) : r.log[i].op \in SetterOps
C26_Witness ==
    \E g \in Goroutines : LET r == disp[g] IN
        /\ Succeeded(r) /\ r.typ = "T1" /\ r.method = "GET"
        /\ "Initializer" \in TypeOf(r).hooks
        /\ \E i \in 1..Len(r.log) :
              /\ r.log[i].op = "SetHttpMethod" /\ r.log[i].arg = <<"GET">>
              /\ \E j \in (i + 1)..Len(r.log) : r.log[j].op = "Init"

\* the directive headers of a response, with their values
C27_Directives(w) == {h \in w.headers : h.k \in DirectiveHeaders}
\* C27: in every dispatch each getter is called at most once and only if the
\* instance's type implements it, after Process has returned nil (when the
\* type implements Processor) and after every call of the event lifecycle,
\* and before Render; Render is called only after every implemented getter
\* has returned, and a successful dispatch has called each of them once; the
\* directive headers of the response are written by the step that calls the
\* getters and by no other, so they hold what the getters returned then.
C27_OutboundOnceAfterProcess ==
    /\ [](\A g \in Goroutines : LET r == disp[g] IN
            /\ \A i \in 1..Len(r.log) : r.log[i].op \in GetterOps =>
                  /\ \E gt \in TypeOf(r).getters : r.log[i].op = "Get" \o gt
                  /\ \A j \in 1..Len(r.log) : r.log[j].op = r.log[i].op => j = i
                  /\ "Processor" \in TypeOf(r).hooks =>
                        \E j \in 1..(i - 1) : Did(r, j, "Process", "ok")
                  /\ \A j \in 1..(i - 1) : r.log[j].op # "Render"
                  /\ \A j \in (i + 1)..Len(r.log) :
                        r.log[j].op \in GetterOps \cup {"Render"}
            /\ \A i \in 1..Len(r.log) : r.log[i].op = "Render" =>
                  \A gt \in TypeOf(r).getters :
                      \E j \in 1..(i - 1) : Did(r, j, "Get" \o gt, "ok")
            /\ Succeeded(r) =>
                  \A gt \in TypeOf(r).getters : Called(r, "Get" \o gt))
    /\ [][\A g \in Goroutines :
            C27_Directives(disp'[g].w) # C27_Directives(disp[g].w) =>
                \/ disp[g].pc = "outbound"
                \/ disp'[g].pc = "idle"]_vars
C27_Witness ==
    \E g \in Goroutines : LET r == disp[g] IN
        /\ Succeeded(r) /\ r.hasEvent
        /\ "Processor" \in TypeOf(r).hooks
        /\ Called(r, "AfterEvent") /\ Called(r, "Process")
        /\ [k |-> "HX-Redirect", v |-> "/x"] \in r.w.headers
        /\ ~HasHeader(r.w, "HX-Refresh")

\* C28: in one dispatch no operation is invoked twice: GetFormDecoder,
\* Decode, each setter, Init, Validate, BeforeEvent, the event handler,
\* AfterEvent, Process, each getter and Render occur at most once among the
\* calls of the dispatch, whatever each of them returned.
C28_NoRetries ==
    \A g \in Goroutines : LET r == disp[g] IN
        \A i, j \in 1..Len(r.log) : r.log[i].op = r.log[j].op => i = j
C28_Witness ==
    \E g \in Goroutines : LET r == disp[g] IN
        /\ r.pc = "done" /\ r.typ = "T1" /\ TypeOf(r).hooks = CoreHooks
        /\ TypeOf(r).decoder
        /\ r.log # <<>> /\ Did(r, Len(r.log), "Process", "err")
        /\ Called(r, "Handler") /\ Called(r, "Validate")

\* the dispatch reported that its event has no usable handler
C29_Reported(r) ==
    /\ r.pc \in {"error", "done"}
    /\ r.err.type \in {"ErrEventNotFound"} \cup SignatureErrors
\* what C29 says of a dispatch r whose event is in the case `case`
C29_Holds(r, case) ==
    (r.hasEvent /\ case) =>
        /\ ~Called(r, "AfterEvent")
        /\ (C29_Reported(r) /\ "BeforeEventHandler" \in TypeOf(r).hooks) =>
              /\ Cardinality({i \in 1..Len(r.log) : r.log[i].op = "BeforeEvent"}) = 1
              /\ \E i \in 1..Len(r.log) :
                    Did(r, i, "BeforeEvent", "ok") /\ r.log[i].arg = r.eventName
\* C29: in a dispatch whose event has no On<...> method, or one that has not
\* the signature (ctx context.Context) error, AfterEvent is never called,
\* and when the failure is reported BeforeEvent (if implemented) has been
\* called exactly once, with the event name.
C29_BeforeEventBeforeResolution ==
    \A g \in Goroutines : LET r == disp[g] IN
        C29_Holds(r, \A m \in MethodByName(r, MethodName(r.eventName)) : ~RequiredShape(m))
\* the same for the events without a method and the methods whose inputs
\* are not (ctx context.Context)
C29_ForRejectedHandlers ==
    \A g \in Goroutines : LET r == disp[g] IN
        C29_Holds(r, \A m \in MethodByName(r, MethodName(r.eventName)) :
                        m.numIn # 1 \/ ~m.ctxIn)
C29_RejectedAfterBeforeEvent ==
    \E g \in Goroutines : LET r == disp[g] IN
        /\ r.pc = "done" /\ r.hasEvent /\ r.err.type = "ErrEventNotFound"
        /\ Called(r, "BeforeEvent")

\* C30: the event of a request is the first value of hxc-event among the
\* URL query parameters for GET and among the fields of the body for POST:
\* the dispatch enters the event lifecycle with that name exactly when the
\* field is there, so a GET with the field in its query and a POST with the
\* same field in its body do the same, and a POST with the field in its URL
\* query alone is handled as a request without event.
C30_Source == IF fn.method = "GET" THEN fn.query ELSE fn.body
C30_EventFromDecodedFields ==
    (fn.op = "eventCheck" /\ fn.pc = "done") =>
        IF C30_Source = <<>>
        THEN ~fn.r.hasEvent /\ fn.r.pc = "process" /\ fn.r.eventName = <<>>
        ELSE fn.r.hasEvent /\ fn.r.pc = "before" /\ fn.r.eventName = C30_Source[1]
C30_Witness ==
    /\ fn.op = "eventCheck" /\ fn.pc = "done"
    /\ fn.method = "POST"
    /\ fn.query = << <<"i", "n", "c">> >> /\ fn.body = <<>>
    /\ ~fn.r.hasEvent

\* the last segment of a path: the text after its final '/', of the path
\* without its final character when that is '/'
C31_LastSegment(path) ==
    LET n == Len(path)
        trimmed == IF n > 0 /\ path[n] = "/" THEN SubSeq(path, 1, n - 1) ELSE path
        slashes == {i \in 1..Len(trimmed) : trimmed[i] = "/"}
    IN  IF slashes = {} THEN trimmed
        ELSE SubSeq(trimmed, (CHOOSE i \in slashes : \A j \in slashes : j <= i) + 1,
                    Len(trimmed))

C32_Code(r) ==
    IF r.pc = "error" THEN r.pending.code
    ELSE IF r.errCalls # <<>> THEN r.errCalls[1].code
    ELSE 200

C32_DecodeOps == {"GetFormDecoder", "Decode"}

\* C32: the checks are made in one order and the first that fails gives the
\* response.  An empty or malformed name is answered 400 whatever the method
\* and without a look at the registry; then a method other than GET and POST
\* is answered 405 without a look at the registry; then an unregistered name
\* is answered 404 and nothing is decoded; then a form that does not parse or
\* decode is answered 400 and no later stage is called; every call of a later
\* stage is made on a valid, registered name with GET or POST after Decode
\* has returned no error, and 500 is answered only there.  The error handler
\* is called once.
C32_ChecksInOrder ==
    \A g \in Goroutines :
        LET r == disp[g]
            code == C32_Code(r)
            valid == isValidComponentName(r.componentName)
            allowed == r.method \in {"GET", "POST"}
            looked == r.typ # ""
            decoded == \E i \in 1..Len(r.log) : r.log[i].op = "Decode" /\ r.log[i].res = "ok"
            later == {i \in 1..Len(r.log) : r.log[i].op \notin C32_DecodeOps}
        IN  /\ r.pc \in {"error", "done"} =>
                /\ ~valid => code = 400 /\ ~looked /\ r.log = <<>>
                /\ (valid /\ ~allowed) => code = 405 /\ ~looked /\ r.log = <<>>
                /\ (valid /\ allowed /\ ~looked) => code = 404 /\ r.log = <<>>
                /\ (looked /\ ~decoded) =>
                      /\ later = {}
                      /\ code = 400 \/ (code = 500 /\ r.panicked)
                /\ code = 500 => looked
                /\ code = 200 => decoded
                /\ Len(r.errCalls) <= 1
            /\ later # {} => valid /\ allowed /\ looked /\ decoded

\* a method that is not allowed on a name that is not registered: 405, not 404
C32_Witness ==
    \E g \in Goroutines :
        /\ disp[g].pc = "done" /\ disp[g].method = "PUT"
        /\ isValidComponentName(disp[g].componentName)
        /\ disp[g].componentName \notin DOMAIN components
        /\ Len(disp[g].errCalls) = 1 /\ disp[g].errCalls[1].code = 405

\* the stage at which the helper stopped with a failure ("none": it returned nil)
C33_HelperStop(f) ==
    CASE f.ret.kind = "nil" -> "none"
      [] f.ret.kind = "panic" -> f.log[Len(f.log)].op
      [] f.ret.text = "Init failed" -> "Init"
      [] f.ret.text = "BeforeEvent failed" -> "BeforeEvent"
      [] f.ret.text = "event handler failed" -> "Handler"
      [] f.ret.text = "AfterEvent failed" -> "AfterEvent"
      [] f.ret.text = "Process failed" -> "Process"
      [] f.ret.text = "not found" -> "lookup"
      [] OTHER -> "signature"

\* the stage at which the handler func stopped with a failure
C33_DispatchStop(r) ==
    CASE r.pc = "outbound" -> "none"
      [] r.panicked -> r.log[Len(r.log)].op
      [] r.pending.title = "Initialization Error" -> "Init"
      [] r.pending.title = "Processing Error" -> "Process"
      [] r.err.type = "BeforeEvent failed" -> "BeforeEvent"
      [] r.err.type = "event handler failed" -> "Handler"
      [] r.err.type = "AfterEvent failed" -> "AfterEvent"
      [] r.err.type = "ErrEventNotFound" -> "lookup"
      [] OTHER -> "signature"

C33_Calls(log) == SelectSeq(log, LAMBDA c : c.op \in MirrorOps)

\* C33: SimulateEvent(ctx, c, e) makes the calls of Init, BeforeEvent,
\* On<Capitalize(e)>, AfterEvent and Process, with the arguments and in the
\* order, that the handler func makes for a request with hxc-event=e on a
\* component that behaves the same, and it stops at the same step;
\* SimulateProcess does so for a request without the field.  Validate is
\* called by the handler func alone and returns (with or without errors).
C33_HelpersMirrorDispatch ==
    (fn.op = "mirror" /\ MirrorDispatched(fn.r) /\ fn.sim.pc = "done") =>
        /\ fn.sim.log = C33_Calls(fn.r.log)
        /\ C33_HelperStop(fn.sim) = C33_DispatchStop(fn.r)

\* both runs stop at an AfterEvent that fails, after three equal calls
C33_Witness ==
    /\ fn.op = "mirror" /\ MirrorDispatched(fn.r) /\ fn.sim.pc = "done"
    /\ fn.sim.op = "SimulateEvent"
    /\ Len(fn.sim.log) = 3 /\ fn.sim.log[3].op = "AfterEvent"
    /\ fn.sim.ret.text = "AfterEvent failed"
    /\ \E i \in 1..Len(fn.r.log) : fn.r.log[i].op = "Validate"
    /\ fn.r.err.type = "AfterEvent failed"

\* the names a step adds to the table
C34_Added == DOMAIN components' \ DOMAIN components

\* C34: no step removes or alters an entry of the table; a step adds at
\* most one entry, and only the insertion of a Register call that returns
\* normally adds one, for its own name and type; every Register call that
\* succeeds adds its entry.  So the steps of the other methods (the lookup
\* and the error handler call of a dispatch, the query methods,
\* SetErrorHandler, EnableDebugMode, DisableDebugMode) and of a Register
\* that panics leave the table as it is.
C34_EntriesImmutable ==
    [][/\ \A n \in DOMAIN components :
             n \in DOMAIN components' /\ components'[n] = components[n]
       /\ \A n \in C34_Added :
             /\ C34_Added = {n}
             /\ \E p \in Procs :
                   /\ procs[p].op = "Register" /\ procs[p].pc = "insert"
                   /\ procs[p].name = n /\ components'[n] = procs[p].typ
                   /\ procs'[p].result.status = "ok"
       /\ \A p \in Procs :
             (/\ procs[p].op = "Register"
              /\ procs[p].result.status # "ok" /\ procs'[p].result.status = "ok")
             => C34_Added = {procs[p].name}
       /\ (\A p \in Procs : procs[p].op # "Register" \/ procs'[p].result.status # "ok")
             => components' = components]_vars

\* a table of two entries after a Register that panicked on a registered
\* name and a dispatch for an unknown name that called the error handler
C34_Witness ==
    /\ Cardinality(DOMAIN components) = 2
    /\ procs["p1"].op = "Register" /\ procs["p1"].pc = "done"
    /\ procs["p1"].result.status = "panic" /\ procs["p1"].name \in DOMAIN components
    /\ procs["p2"].op = "HandlerFor" /\ procs["p2"].pc = "done"
    /\ procs["p2"].name \notin DOMAIN components

\* the goroutine holds the lock
C35_Holds(p) == mu.w = p \/ p \in mu.r

\* the goroutine is at r.mu.Lock() or r.mu.RLock()
C35_Waits(p) == procs[p].pc \in {"lock", "rlock"}

\* C35: a goroutine holds no lock of the registry while code of the client
\* runs in it (decoder, hooks, Render, error handler) nor when it reaches
\* Lock or RLock, and Register has released the write lock when it returns
\* or panics; so every goroutine that waits for the lock gets it, be it in
\* the handler func, in a method called by a hook, or in a method called
\* after a Register panic was recovered.
C35_NoDeadlock ==
    /\ [](\A p \in Procs :
            /\ (procs[p].pc = "idle" \/ procs[p].pc = "done" \/ C35_Waits(p))
                  => ~C35_Holds(p)
            /\ procs[p].pc = "call" => ~C35_Holds(p)
            /\ (mu.w # "none") => mu.r = {})
    /\ \A p \in Procs : C35_Waits(p) ~> ~C35_Waits(p)

\* Register, called by a hook, panics on a registered name and is about to
\* release the write lock, while the error handler of the other goroutine
\* waits for the read lock in IsRegistered
C35_Witness ==
    /\ fn.op = "hooks" /\ fn.at["p1"] = "hook" /\ fn.at["p2"] = "error"
    /\ procs["p1"].op = "Register" /\ procs["p1"].pc = "unlock"
    /\ procs["p1"].result.status = "panic" /\ mu.w = "p1"
    /\ procs["p2"].op = "IsRegistered" /\ procs["p2"].pc = "rlock"

\* Render has failed on this dispatch
C36_RenderFailed(r) ==
    /\ r.log # <<>>
    /\ r.log[Len(r.log)].op = "Render" /\ r.log[Len(r.log)].res # "ok"

\* every header of w is a header of v with the same value
C36_Kept(w, v) ==
    \A h \in w.headers : \E h2 \in v.headers : h2.k = h.k /\ h2.v = h.v

\* C36: the headers the response holds when Render is called (directive
\* headers of the outbound pass, debug headers) are all still on it, with
\* their values, after Render has failed and after the error handler has
\* produced the error response.
C36_HeadersNotRolledBack ==
    [][\A g \in Goroutines :
          LET r == disp[g]
              q == disp'[g]
          IN  /\ (r.pc = "render" /\ C36_RenderFailed(q)) => C36_Kept(r.w, q.w)
              /\ (r.pc = "error" /\ C36_RenderFailed(r) /\ q.pc \in {"error", "done"})
                    => C36_Kept(r.w, q.w)]_vars

\* an error response of status 500 after a failed Render, with a directive
\* header and the debug headers
C36_Witness ==
    \E g \in Goroutines :
        /\ disp[g].pc = "done" /\ C36_RenderFailed(disp[g])
        /\ Len(disp[g].errCalls) = 1 /\ StatusOf(disp[g].w) = 500
        /\ [k |-> "HX-Redirect", v |-> "/x"] \in disp[g].w.headers
        /\ HasHeader(disp[g].w, "HX-Refresh")
        /\ HasHeader(disp[g].w, "X-HxComponent-Name")

\* Handler has answered 400, or has called the handler func of HandlerFor
\* with a valid name
C37_Outcome(f) ==
    /\ f.r.pc # "crashed" /\ ~f.r.panicked
    /\ \/ /\ f.r.pc = "error" /\ f.r.pending.code = 400
          /\ ~isValidComponentName(f.r.componentName)
       \/ /\ isValidComponentName(f.r.componentName)
          /\ f.r = DoRequest(f.r.componentName, f.method)

\* C37: for every URL path, the empty path and paths without '/' among
\* them, Handler does not panic: it answers 400 (empty or invalid name) or
\* goes on to HandlerFor with a valid name.
C37_HandlerTotal ==
    (fn.op = "Handler" /\ fn.pc = "done") => C37_Outcome(fn)

\* the same for the paths that hold a '/'
C37_TotalWithSlash ==
    (fn.op = "Handler" /\ fn.pc = "done" /\ "/" \in Range(fn.path)) => C37_Outcome(fn)

\* Handler panics on a path without '/'
C37_SlashlessPanics ==
    /\ fn.op = "Handler" /\ fn.pc = "done"
    /\ fn.path = <<"a">> /\ fn.r.pc = "crashed"

\* the pages of a response body that the error handler wrote
C38_ErrorPages(w) == {i \in 1..Len(w.body) : w.body[i].page \in {"error", "fallback"}}

\* the terminal outcomes of a dispatch
C38_Rendered(r) ==
    /\ r.rendered /\ r.errCalls = <<>>
    /\ r.log # <<>> /\ r.log[Len(r.log)].op = "Render" /\ r.log[Len(r.log)].res = "ok"
    /\ C38_ErrorPages(r.w) = {}

C38_Failed(r) ==
    /\ ~r.rendered /\ Len(r.errCalls) = 1
    /\ r.w.body # <<>> /\ C38_ErrorPages(r.w) = {Len(r.w.body)}

====
